---- MODULE Spec2Model ----
(***************************************************************************)
(* The layer store of the planner (zustand store `useStore`): four layers   *)
(* of entities, per-layer visibility, a snapshot history with undo/redo,    *)
(* and the outbound sync queue with its drain and the inbound replay.       *)
(***************************************************************************)
EXTENDS Integers, Sequences, FiniteSets, TLC

\* ------------------------------------------------------------------ bounds
MaxCalls == 2        \* store calls in one behaviour of the whole store
MaxQueued == 3       \* local mutations in one behaviour of the outbound queue
MaxStamp == 2        \* clock readings 0..MaxStamp on the two replicas
MaxHistoryLength == 2   \* largest maxHistoryLength option given to useHistory
MaxCanvasCalls == 2     \* canvas handlers that write to the store in one behaviour
MaxSegments == 3        \* largest segment count given to approximateBezier, the default apart
MaxChecks == 2          \* connectivity checks awaiting their answer at one time

\* ------------------------------------------------------------------ inputs
Ids == {"e1", "e2"}
Layers == {"events", "decorations", "handwriting", "tasks"}
UpdatableLayers == {"events", "decorations", "tasks"}

\* Ids offered per layer: two on the events layer, one on each of the others
\* (the handlers of the four layers are the same code, layer name apart).
LayerIds(l) == IF l = "events" THEN Ids ELSE {"e1"}

\* Entities as the callers build them: an id and two data fields.
Entities(l) == {[id |-> i, title |-> "t0", color |-> "c0"] : i \in LayerIds(l)}

\* Partial<Entity> values handed to update(id, updates).
Partials == {[title |-> "t1"]}

Null == [null |-> TRUE]

VARIABLES
  events, decorations, handwriting, tasks,   \* the four layers (arrays)
  visibility,                                \* layer -> boolean
  syncQueue,                                 \* SyncOperation[]
  history,                                   \* LayerState[]
  historyIndex,                              \* -1 .. history.length - 1
  now,                                       \* the clock read by Date.now()
  inFlight,                                  \* batches handed to the transport, unanswered
  calls,                                     \* observer: store mutations made so far
  lastStep,                                  \* observer: what the last step was (a call, a one-create replay, a transport answer)
  run,                                       \* observer: the current mutate/undo/redo run
  callLog,                                   \* observer: mutation calls since the queue was cleared
  undelivered,                               \* observer: operations enqueued and not yet accepted
  scen,                                      \* observer: progress along Scenario A
  observeRuns,                               \* observer switch: run and scen record only when TRUE
  limit,                                     \* store calls allowed in this behaviour
  replica,                                   \* two stores: replica name -> store state
  clock,                                     \* replica name -> what Date.now() returns there
  applied,                                   \* replica name -> it has applied the other's operation
  localState,                                \* observer: replica name -> LayerState after its local call
  past, present, future, lastSavedIndex,     \* useHistory: historyState
  debounceTimer,                             \* useHistory: debounceTimerRef.current (the pending save, if any)
  lastStateRef,                              \* useHistory: lastStateRef.current
  renderedPresent,                           \* useHistory: historyState.present as of the last render
  enableDiffing, maxHistoryLength,           \* useHistory: options
  hookStep,                                  \* observer: whether the last step was a save taking effect (and which)
  burst,                                     \* observer: the run of debounced saves now pending
  savedPresent,                              \* observer: present at the last markAsSaved()
  selectedDate, viewMode,                    \* store: view controls read by the calendar canvas
  draggedSticker, resizingSticker,           \* useCalendarCanvas: the active gestures
  listeners,                                 \* useCalendarCanvas: the document listeners it has attached
  timeZone,                                  \* hours the local clock is ahead of UTC
  doc,                                       \* PDF export: the path commands given to jsPDF
  lastCurve,                                 \* observer: the arguments of the last approximateBezier
  status,                                    \* useOnlineStatus: the status state
  navigatorOnLine,                           \* navigator.onLine
  retryTimeoutRef,                           \* useOnlineStatus: the retry timer still to fire, if any
  checks                                     \* useOnlineStatus: connectivity checks awaiting their answer

storeVars == <<events, decorations, handwriting, tasks, visibility,
               syncQueue, history, historyIndex>>
replicaVars == <<replica, clock, applied, localState>>
\* What no operation of the single store changes.
historyState == <<past, present, future, lastSavedIndex>>
hookVars == <<past, present, future, lastSavedIndex, debounceTimer, lastStateRef,
              renderedPresent, enableDiffing, maxHistoryLength, hookStep, burst,
              savedPresent>>
canvasVars == <<selectedDate, viewMode, draggedSticker, resizingSticker, listeners,
                timeZone>>
exportVars == <<doc, lastCurve>>
onlineVars == <<status, navigatorOnLine, retryTimeoutRef, checks>>
env == <<now, observeRuns, limit, replicaVars, hookVars, canvasVars, exportVars,
         onlineVars>>

vars == <<events, decorations, handwriting, tasks, visibility,
          syncQueue, history, historyIndex, now, inFlight,
          calls, lastStep, run, callLog, undelivered, scen, observeRuns, limit,
          replica, clock, applied, localState,
          past, present, future, lastSavedIndex, debounceTimer, lastStateRef,
          renderedPresent, enableDiffing, maxHistoryLength, hookStep, burst,
          savedPresent,
          selectedDate, viewMode, draggedSticker, resizingSticker, listeners, timeZone,
          doc, lastCurve,
          status, navigatorOnLine, retryTimeoutRef, checks>>

\* ------------------------------------------------------------------ helpers
Range(s) == {s[i] : i \in 1..Len(s)}

\* state.events.filter(pred)
RECURSIVE FilterOutId(_, _)
FilterOutId(arr, id) ==
  IF arr = <<>> THEN <<>>
  ELSE IF Head(arr).id # id THEN <<Head(arr)>> \o FilterOutId(Tail(arr), id)
       ELSE FilterOutId(Tail(arr), id)

\* { ...e, ...updates }
Merge(e, updates) ==
  [f \in DOMAIN e \cup DOMAIN updates |->
     IF f \in DOMAIN updates THEN updates[f] ELSE e[f]]

\* state.events.map((e) => e.id === id ? { ...e, ...updates } : e)
\* A merge that adds the updates as a new entity when no entity has the id.
MapMergeUpsert(arr, id, updates) ==
  IF \E i \in 1..Len(arr) : arr[i].id = id
  THEN [i \in 1..Len(arr) |-> IF arr[i].id = id THEN Merge(arr[i], updates) ELSE arr[i]]
  ELSE Append(arr, Merge([id |-> id], updates))

MapMerge(arr, id, updates) ==
  [i \in 1..Len(arr) |-> IF arr[i].id = id THEN Merge(arr[i], updates) ELSE arr[i]]

\* The store as one value, so that handlers compose.
Store ==
  [events |-> events, decorations |-> decorations, handwriting |-> handwriting,
   tasks |-> tasks, visibility |-> visibility, syncQueue |-> syncQueue,
   history |-> history, historyIndex |-> historyIndex]

SetStore(s) ==
  /\ events' = s.events
  /\ decorations' = s.decorations
  /\ handwriting' = s.handwriting
  /\ tasks' = s.tasks
  /\ visibility' = s.visibility
  /\ syncQueue' = s.syncQueue
  /\ history' = s.history
  /\ historyIndex' = s.historyIndex

getCurrentState(s) ==
  [events |-> s.events, decorations |-> s.decorations,
   handwriting |-> s.handwriting, tasks |-> s.tasks, visibility |-> s.visibility]

\* A push that leaves historyIndex where it was.
PushHistoryKeepsIndex(s) ==
  [s EXCEPT !.history = Append(SubSeq(s.history, 1, s.historyIndex + 1),
                               getCurrentState(s))]

\* A push that appends above the whole history instead of above historyIndex.
PushHistoryNoSlice(s) ==
  [s EXCEPT !.history = Append(s.history, getCurrentState(s)),
            !.historyIndex = s.historyIndex + 1]

\* history: [...state.history.slice(0, state.historyIndex + 1), currentState],
\* historyIndex: state.historyIndex + 1
PushHistory(s) ==
  [s EXCEPT !.history = Append(SubSeq(s.history, 1, s.historyIndex + 1),
                               getCurrentState(s)),
            !.historyIndex = s.historyIndex + 1]

\* An enqueue at the front of the queue.
queueSyncInFront(s, operation) ==
  [s EXCEPT !.syncQueue = <<operation>> \o s.syncQueue]

queueSync(s, operation) ==
  [s EXCEPT !.syncQueue = Append(s.syncQueue, operation)]

AddEntity(s, layer, entity, t) ==
  LET pushed == PushHistory(s)
      added == [pushed EXCEPT ![layer] = Append(s[layer], entity)]
  IN queueSync(added, [type |-> "create", layer |-> layer, entityId |-> entity.id,
                       data |-> entity, timestamp |-> t])

\* An update that returns early when no entity has the id.
UpdateEntityChecksId(s, layer, id, updates, t) ==
  IF \A i \in 1..Len(s[layer]) : s[layer][i].id # id THEN s
  ELSE LET pushed == PushHistory(s)
           merged == [pushed EXCEPT ![layer] = MapMerge(s[layer], id, updates)]
       IN queueSync(merged, [type |-> "update", layer |-> layer, entityId |-> id,
                             data |-> updates, timestamp |-> t])

UpdateEntity(s, layer, id, updates, t) ==
  LET pushed == PushHistory(s)
      merged == [pushed EXCEPT ![layer] = MapMerge(s[layer], id, updates)]
  IN queueSync(merged, [type |-> "update", layer |-> layer, entityId |-> id,
                        data |-> updates, timestamp |-> t])

DeleteEntity(s, layer, id, t) ==
  LET pushed == PushHistory(s)
      removed == [pushed EXCEPT ![layer] = FilterOutId(s[layer], id)]
  IN queueSync(removed, [type |-> "delete", layer |-> layer, entityId |-> id,
                         data |-> Null, timestamp |-> t])

\* A toggle that also enqueues a sync operation, as the other mutations do.
ToggleVisibilityQueued(s, layer) ==
  LET pushed == PushHistory(s)
      flipped == [pushed EXCEPT !.visibility =
                    [s.visibility EXCEPT ![layer] = ~s.visibility[layer]]]
  IN queueSync(flipped, [type |-> "update", layer |-> layer, entityId |-> layer,
                         data |-> Null, timestamp |-> 0])

ToggleVisibility(s, layer) ==
  LET pushed == PushHistory(s)
  IN [pushed EXCEPT !.visibility = [s.visibility EXCEPT ![layer] = ~s.visibility[layer]]]

\* An undo that restores every layer but events.
UndoKeepsEvents(s) ==
  IF s.historyIndex >= 0
  THEN LET prevState == s.history[s.historyIndex + 1]
       IN [s EXCEPT !.decorations = prevState.decorations,
                    !.handwriting = prevState.handwriting,
                    !.tasks = prevState.tasks,
                    !.visibility = prevState.visibility,
                    !.historyIndex = s.historyIndex - 1]
  ELSE s

\* An undo that also withdraws the newest queued operation.
UndoWithdrawsOperation(s) ==
  IF s.historyIndex >= 0
  THEN LET prevState == s.history[s.historyIndex + 1]
       IN [s EXCEPT !.events = prevState.events,
                    !.decorations = prevState.decorations,
                    !.handwriting = prevState.handwriting,
                    !.tasks = prevState.tasks,
                    !.visibility = prevState.visibility,
                    !.historyIndex = s.historyIndex - 1,
                    !.syncQueue = SubSeq(s.syncQueue, 1, Len(s.syncQueue) - 1)]
  ELSE s

\* An undo that restores the snapshot but leaves historyIndex where it was.
UndoKeepsIndex(s) ==
  IF s.historyIndex >= 0
  THEN LET prevState == s.history[s.historyIndex + 1]
       IN [s EXCEPT !.events = prevState.events,
                    !.decorations = prevState.decorations,
                    !.handwriting = prevState.handwriting,
                    !.tasks = prevState.tasks,
                    !.visibility = prevState.visibility]
  ELSE s

Undo(s) ==
  IF s.historyIndex >= 0
  THEN LET prevState == s.history[s.historyIndex + 1]
       IN [s EXCEPT !.events = prevState.events,
                    !.decorations = prevState.decorations,
                    !.handwriting = prevState.handwriting,
                    !.tasks = prevState.tasks,
                    !.visibility = prevState.visibility,
                    !.historyIndex = s.historyIndex - 1]
  ELSE s

Redo(s) ==
  IF s.historyIndex < Len(s.history) - 1
  THEN LET nextState == s.history[s.historyIndex + 2]
       IN [s EXCEPT !.events = nextState.events,
                    !.decorations = nextState.decorations,
                    !.handwriting = nextState.handwriting,
                    !.tasks = nextState.tasks,
                    !.visibility = nextState.visibility,
                    !.historyIndex = s.historyIndex + 1]
  ELSE s

\* A dispatch that writes to the layers without the local calls: no snapshot
\* and no queued operation.
ApplyOpSilently(s, op, t) ==
  CASE op.type = "create" -> [s EXCEPT ![op.layer] = Append(s[op.layer], op.data)]
    [] op.type = "update" ->
         IF op.layer \in UpdatableLayers
         THEN [s EXCEPT ![op.layer] = MapMerge(s[op.layer], op.entityId, op.data)]
         ELSE s
    [] op.type = "delete" ->
         [s EXCEPT ![op.layer] = FilterOutId(s[op.layer], op.entityId)]
    [] OTHER -> s

\* One inbound operation, dispatched as the switch of applyRemoteChanges does.
ApplyOp(s, op, t) ==
  CASE op.type = "create" -> AddEntity(s, op.layer, op.data, t)
    [] op.type = "update" ->
         IF op.layer \in UpdatableLayers
         THEN UpdateEntity(s, op.layer, op.entityId, op.data, t)
         ELSE s
    [] op.type = "delete" -> DeleteEntity(s, op.layer, op.entityId, t)
    [] OTHER -> s

\* operations.forEach(...)
RECURSIVE ApplyAll(_, _, _)
ApplyAll(s, ops, t) ==
  IF ops = <<>> THEN s ELSE ApplyAll(ApplyOp(s, Head(ops), t), Tail(ops), t)

\* Inbound operations a peer can send.
RemoteStamps == {0}
RemoteCreates ==
  UNION {{[type |-> "create", layer |-> l, entityId |-> e.id, data |-> e, timestamp |-> ts] :
            e \in Entities(l), ts \in RemoteStamps} : l \in Layers}
RemoteUpdates ==
  UNION {{[type |-> "update", layer |-> l, entityId |-> i, data |-> u, timestamp |-> ts] :
            i \in LayerIds(l), u \in Partials, ts \in RemoteStamps} : l \in Layers}
RemoteDeletes ==
  UNION {{[type |-> "delete", layer |-> l, entityId |-> i, data |-> Null, timestamp |-> ts] :
            i \in LayerIds(l), ts \in RemoteStamps} : l \in Layers}
RemoteOps == RemoteCreates \cup RemoteUpdates \cup RemoteDeletes
RemoteBatches == {<<o>> : o \in RemoteOps} \cup {<<o, o>> : o \in RemoteCreates}

\* Store calls a batch makes (an update of the handwriting layer makes none).
RECURSIVE CallsOf(_)
CallsOf(ops) ==
  IF ops = <<>> THEN <<>>
  ELSE LET op == Head(ops)
       IN (IF op.type = "update" /\ op.layer \notin UpdatableLayers
           THEN <<>>
           ELSE <<[type |-> op.type, layer |-> op.layer,
                   entityId |-> IF op.type = "create" THEN op.data.id ELSE op.entityId]>>)
          \o CallsOf(Tail(ops))

\* ------------------------------------------------------------------ observers
IdsOf(arr) == {arr[i].id : i \in 1..Len(arr)}

\* The LayerState of a store value, as the properties read it.
LayerStateOf(s) ==
  [events |-> s.events, decorations |-> s.decorations, handwriting |-> s.handwriting,
   tasks |-> s.tasks, visibility |-> s.visibility]

Step(kind) == [kind |-> kind, batch |-> <<>>]

NoRun == [pre |-> <<>>, post |-> Null, undos |-> 0, redos |-> 0]

\* The LayerState before each store call a replayed batch makes.
RECURSIVE PreStates(_, _, _)
PreStates(s, ops, t) ==
  IF ops = <<>> THEN <<>>
  ELSE (IF CallsOf(<<Head(ops)>>) = <<>> THEN <<>> ELSE <<LayerStateOf(s)>>)
       \o PreStates(ApplyOp(s, Head(ops), t), Tail(ops), t)

RunAfterCalls(pres, s2) ==
  IF pres = <<>> \/ ~observeRuns THEN run
  ELSE [pre |-> (IF run.undos = 0 THEN run.pre ELSE <<>>) \o pres,
        post |-> LayerStateOf(s2), undos |-> 0, redos |-> 0]

RunAfterMutation(s, s2) == RunAfterCalls(<<LayerStateOf(s)>>, s2)

RunAfterUndo ==
  IF run.redos = 0 /\ run.undos < Len(run.pre)
  THEN [run EXCEPT !.undos = @ + 1] ELSE NoRun

RunAfterRedo ==
  IF run.undos > 0 /\ run.redos < run.undos
  THEN [run EXCEPT !.redos = @ + 1] ELSE NoRun

ScenOff == [step |-> -1, e |-> Null]

ScenAfter(op, args) ==
  CASE ~observeRuns -> scen
    [] scen.step = 0 /\ op = "addEvent" -> [step |-> 1, e |-> args[1]]
    [] scen.step = 1 /\ op = "deleteEvent" /\ args[1] = scen.e.id -> [scen EXCEPT !.step = 2]
    [] scen.step = 2 /\ op = "undo" -> [scen EXCEPT !.step = 3]
    [] scen.step = 3 /\ op = "undo" -> [scen EXCEPT !.step = 4]
    [] OTHER -> ScenOff

NewOps(s, s2) == {s2.syncQueue[i] : i \in (Len(s.syncQueue) + 1)..Len(s2.syncQueue)}

\* ------------------------------------------------------------------ two replicas
Replicas == {"A", "B"}
Other(r) == IF r = "A" THEN "B" ELSE "A"
Stamps == 0..MaxStamp

\* Partial<CalendarEvent> values the two users type.
ReplicaPartials == {[title |-> "t1"], [title |-> "t2"], [color |-> "c1"]}

\* A store value as create() leaves it, holding the given events.
StoreWith(evs) ==
  [events |-> evs, decorations |-> <<>>, handwriting |-> <<>>, tasks |-> <<>>,
   visibility |-> [l \in Layers |-> TRUE],
   syncQueue |-> <<>>, history |-> <<>>, historyIndex |-> -1]

\* Event layers the two replicas share at the start.
SharedEvents ==
  {<<[id |-> "e1", title |-> "t0", color |-> "c0"]>>,
   <<[id |-> "e1", title |-> "t0", color |-> "c0"],
     [id |-> "e2", title |-> "t0", color |-> "c0"]>>}

ReplicasIdle ==
  /\ replica = [r \in Replicas |-> StoreWith(<<>>)]
  /\ clock = [r \in Replicas |-> 0]
  /\ applied = [r \in Replicas |-> FALSE]
  /\ localState = [r \in Replicas |-> Null]

\* ------------------------------------------------------------------ useHistory
\* A Date object: Object.keys(date) is [].
Date(n) == [time |-> n]
DateKeys(d) == {}

\* Snapshots handed to the hook: a LayerState reduced to one event's title and
\* startTime.
HookStates ==
  {[title |-> "a", startTime |-> Date(1)],
   [title |-> "a", startTime |-> Date(2)],
   [title |-> "b", startTime |-> Date(1)]}

\* deepEqual on two Dates: both are objects, neither has keys, the loop over
\* keys1 is empty.
deepEqualDates(d1, d2) ==
  \/ d1 = d2
  \/ /\ Cardinality(DateKeys(d1)) = Cardinality(DateKeys(d2))
     /\ \A key \in DateKeys(d1) : key \in DateKeys(d2)

\* deepEqual on two snapshots: same keys, each value deepEqual.
deepEqual(obj1, obj2) ==
  \/ obj1 = obj2
  \/ /\ Cardinality(DOMAIN obj1) = Cardinality(DOMAIN obj2)
     /\ \A key \in DOMAIN obj1 :
          /\ key \in DOMAIN obj2
          /\ IF key = "startTime" THEN deepEqualDates(obj1[key], obj2[key])
                                  ELSE obj1[key] = obj2[key]

\* A change test that ignores enableDiffing's comparison.
hasStateChangedAlways(diffing, currentState, newState) == TRUE

hasStateChanged(diffing, currentState, newState) ==
  IF ~diffing THEN TRUE ELSE ~deepEqual(currentState, newState)

HistoryState == [past |-> past, present |-> present, future |-> future,
                 lastSavedIndex |-> lastSavedIndex]

setHistoryState(h) ==
  /\ past' = h.past
  /\ present' = h.present
  /\ future' = h.future
  /\ lastSavedIndex' = h.lastSavedIndex

\* A push that keeps the redoable states.
PushStateKeepsFuture(prev, newState, diffing, maxLen) ==
  IF ~hasStateChanged(diffing, prev.present, newState) THEN prev
  ELSE LET pushed == Append(prev.past, prev.present)
           newPast == IF Len(pushed) > maxLen THEN Tail(pushed) ELSE pushed
       IN [past |-> newPast,
           present |-> newState,
           future |-> prev.future,
           lastSavedIndex |->
             IF prev.lastSavedIndex = -1 THEN -1
             ELSE IF prev.lastSavedIndex < Len(prev.past) THEN prev.lastSavedIndex
             ELSE Len(prev.past)]

\* A push that evicts the newest entry of past on overflow.
PushStateEvictsNewest(prev, newState, diffing, maxLen) ==
  IF ~hasStateChanged(diffing, prev.present, newState) THEN prev
  ELSE LET pushed == Append(prev.past, prev.present)
           newPast == IF Len(pushed) > maxLen THEN SubSeq(pushed, 1, maxLen) ELSE pushed
       IN [past |-> newPast,
           present |-> newState,
           future |-> <<>>,
           lastSavedIndex |->
             IF prev.lastSavedIndex = -1 THEN -1
             ELSE IF prev.lastSavedIndex < Len(prev.past) THEN prev.lastSavedIndex
             ELSE Len(prev.past)]

\* The updater of saveToHistory's timer and of saveToHistoryImmediate.
PushState(prev, newState, diffing, maxLen) ==
  IF ~hasStateChanged(diffing, prev.present, newState) THEN prev
  ELSE LET pushed == Append(prev.past, prev.present)
           newPast == IF Len(pushed) > maxLen THEN Tail(pushed) ELSE pushed
       IN [past |-> newPast,
           present |-> newState,
           future |-> <<>>,
           lastSavedIndex |->
             IF prev.lastSavedIndex = -1 THEN -1
             ELSE IF prev.lastSavedIndex < Len(prev.past) THEN prev.lastSavedIndex
             ELSE Len(prev.past)]

\* undo that puts the old present at the back of future.
HookUndoAppendsFuture(prev) ==
  IF Len(prev.past) = 0 THEN prev
  ELSE [past |-> SubSeq(prev.past, 1, Len(prev.past) - 1),
        present |-> prev.past[Len(prev.past)],
        future |-> Append(prev.future, prev.present),
        lastSavedIndex |-> prev.lastSavedIndex]

HookUndo(prev) ==
  IF Len(prev.past) = 0 THEN prev
  ELSE [past |-> SubSeq(prev.past, 1, Len(prev.past) - 1),
        present |-> prev.past[Len(prev.past)],
        future |-> <<prev.present>> \o prev.future,
        lastSavedIndex |-> prev.lastSavedIndex]

HookRedo(prev) ==
  IF Len(prev.future) = 0 THEN prev
  ELSE [past |-> Append(prev.past, prev.present),
        present |-> prev.future[1],
        future |-> Tail(prev.future),
        lastSavedIndex |-> prev.lastSavedIndex]

\* A jumpTo that counts positions from 1.
JumpToOneBased(prev, index, maxLen) ==
  IF index < 1 \/ index > Len(prev.past) + 1 + Len(prev.future) THEN prev
  ELSE LET allStates == prev.past \o <<prev.present>> \o prev.future
       IN [past |-> SubSeq(allStates, 1, index - 1),
           present |-> allStates[index],
           future |-> SubSeq(allStates, index + 1, Len(allStates)),
           lastSavedIndex |-> prev.lastSavedIndex]

\* index is 0-based, as in the code.
JumpTo(prev, index, maxLen) ==
  IF index < 0 \/ index >= Len(prev.past) + 1 + Len(prev.future) THEN prev
  ELSE LET allStates == prev.past \o <<prev.present>> \o prev.future
           sliced == SubSeq(allStates, 1, index)
           newPast == IF Len(sliced) > maxLen
                      THEN SubSeq(sliced, Len(sliced) - maxLen + 1, Len(sliced))
                      ELSE sliced
       IN [past |-> newPast,
           present |-> allStates[index + 1],
           future |-> SubSeq(allStates, index + 2, Len(allStates)),
           lastSavedIndex |-> prev.lastSavedIndex]

getHistoryInfo(h) ==
  [pastLength |-> Len(h.past),
   futureLength |-> Len(h.future),
   currentIndex |-> Len(h.past),
   totalLength |-> Len(h.past) + 1 + Len(h.future),
   hasUnsavedChanges |-> h.lastSavedIndex # Len(h.past)]

\* cancelled: the last immediate save cleared a pending timer. raced: the last
\* timer fired after another history call had run while it was pending.
NoBurst == [before |-> Null, count |-> 0, clean |-> FALSE, cancelled |-> FALSE,
            raced |-> FALSE]

HookStart(initialState, diffing, maxLen) ==
  /\ past = <<>>
  /\ present = initialState
  /\ future = <<>>
  /\ lastSavedIndex = -1
  /\ debounceTimer = Null
  /\ lastStateRef = initialState
  /\ renderedPresent = initialState
  /\ enableDiffing = diffing
  /\ maxHistoryLength = maxLen
  /\ hookStep = "call"
  /\ burst = NoBurst
  /\ savedPresent = Null

HookIdle == HookStart([title |-> "a", startTime |-> Date(1)], FALSE, 0)

\* ------------------------------------------------------------------ calendar canvas
\* Instants are counted in hours since 2026-02-01T00:00Z, a Sunday. The pages
\* offered are February 2026 (28 days) and March 2026 (31 days).
HoursPerDay == 24

\* The local calendar day an instant falls on, and the instant of a local
\* midnight.
LocalDay(instant, tz) == (instant + tz) \div HoursPerDay
Midnight(day, tz) == day * HoursPerDay - tz

\* date.toISOString(): the instant written out in UTC.
toISOString(instant) == [day |-> instant \div HoursPerDay, hour |-> instant % HoursPerDay]

\* new Date(dateString)
NewDate(dateString) == dateString.day * HoursPerDay + dateString.hour

isSameDay(dateLeft, dateRight, tz) == LocalDay(dateLeft, tz) = LocalDay(dateRight, tz)

startOfWeek(date, tz) == LET d == LocalDay(date, tz) IN Midnight(d - (d % 7), tz)
endOfWeek(date, tz) == LET d == LocalDay(date, tz) IN Midnight(d - (d % 7) + 6, tz)
startOfMonth(date, tz) == IF LocalDay(date, tz) < 28 THEN Midnight(0, tz) ELSE Midnight(28, tz)
endOfMonth(date, tz) == IF LocalDay(date, tz) < 28 THEN Midnight(27, tz) ELSE Midnight(58, tz)

eachDayOfInterval(start, end, tz) ==
  [i \in 1..(LocalDay(end, tz) - LocalDay(start, tz) + 1) |->
     Midnight(LocalDay(start, tz) + i - 1, tz)]

\* The displayed days list (useMemo).
Days(date, mode, tz) ==
  IF mode = "weekly"
  THEN eachDayOfInterval(startOfWeek(date, tz), endOfWeek(date, tz), tz)
  ELSE eachDayOfInterval(startOfMonth(date, tz), endOfMonth(date, tz), tz)

days == Days(selectedDate, viewMode, timeZone)

\* The canvas the hook is given, and the store's zoomLevel.
Width == 140
Height == 120
zoomLevel == 1

\* cellDimensions as the effect sets them.
CellDimensions(mode) ==
  [width |-> (Width \div 7) * zoomLevel,
   height |-> (IF mode = "weekly" THEN Height \div 4 ELSE Height \div 6) * zoomLevel]

cellDimensions == CellDimensions(viewMode)

\* days.findIndex(day => isSameDay(day, targetDate)), scanning from position i
\* (1-based); the result is 0-based, -1 when nothing matches.
RECURSIVE FindDayFrom(_, _, _, _)
FindDayFrom(ds, targetDate, tz, i) ==
  IF i > Len(ds) THEN -1
  ELSE IF isSameDay(ds[i], targetDate, tz) THEN i - 1
  ELSE FindDayFrom(ds, targetDate, tz, i + 1)

FindDayIndex(ds, targetDate, tz) == FindDayFrom(ds, targetDate, tz, 1)

\* A grid whose columns run from right to left.
GridCellRightToLeft(dayIndex, mode) ==
  [row |-> IF mode = "weekly" THEN 0 ELSE dayIndex \div 7, col |-> 6 - (dayIndex % 7)]

\* The grid cell dateToPosition gives a date that is displayed.
GridCell(dayIndex, mode) ==
  [row |-> IF mode = "weekly" THEN 0 ELSE dayIndex \div 7, col |-> dayIndex % 7]

\* A dateToPosition that lays the days out in rows of six.
dateToPositionRowsOfSix(dateString, ds, mode, cell, tz) ==
  LET dayIndex == FindDayIndex(ds, NewDate(dateString), tz)
  IN IF dayIndex = -1 THEN [x |-> 0, y |-> 0]
     ELSE [x |-> (dayIndex % 6) * cell.width,
           y |-> (IF mode = "weekly" THEN 0 ELSE dayIndex \div 6) * cell.height]

dateToPosition(dateString, ds, mode, cell, tz) ==
  LET dayIndex == FindDayIndex(ds, NewDate(dateString), tz)
  IN IF dayIndex = -1 THEN [x |-> 0, y |-> 0]
     ELSE [x |-> GridCell(dayIndex, mode).col * cell.width,
           y |-> GridCell(dayIndex, mode).row * cell.height]

\* JavaScript's a % b for b > 0: the result has the sign of a.
JsRemainder(a, b) == IF a >= 0 THEN a % b ELSE -((-a) % b)

Max(a, b) == IF a >= b THEN a ELSE b

\* decorations.find(d => d.id === id): the first match, or Null.
FindById(arr, id) ==
  IF \E i \in 1..Len(arr) : arr[i].id = id
  THEN arr[CHOOSE i \in 1..Len(arr) :
             arr[i].id = id /\ \A j \in 1..(i - 1) : arr[j].id # id]
  ELSE Null

UpdateOp(id, updates, t) ==
  [type |-> "update", layer |-> "decorations", entityId |-> id, data |-> updates,
   timestamp |-> t]

\* The drag branch of handleMouseMove: the updateDecoration calls it makes.
DragUpdates(decs, dragged, x, y, ds, mode, cell, t) ==
  LET sticker == FindById(decs, dragged.id)
      newX == x - dragged.initialX
      newY == y - dragged.initialY
      col == newX \div cell.width
      row == IF mode = "weekly" THEN 0 ELSE newY \div cell.height
      dayIndex == row * 7 + col
  IN IF sticker # Null /\ dayIndex >= 0 /\ dayIndex < Len(ds)
     THEN <<UpdateOp(sticker.id,
                     [position |-> [sticker.position EXCEPT
                                      !.dateX = toISOString(ds[dayIndex + 1]),
                                      !.offsetY = JsRemainder(newY, cell.height)]],
                     t)>>
     ELSE <<>>

\* The resize branch of handleMouseMove.
ResizeUpdates(decs, resizing, x, y, ds, mode, cell, tz, t) ==
  LET sticker == FindById(decs, resizing.id)
  IN IF sticker = Null THEN <<>>
     ELSE LET position == dateToPosition(sticker.position.dateX, ds, mode, cell, tz)
              stickerX == position.x + sticker.position.offsetY
              stickerY == position.y
              newWidth == IF resizing.handle \in {"right", "bottom-right"}
                          THEN Max(20, x - stickerX) ELSE sticker.style.width
              newHeight == IF resizing.handle \in {"bottom", "bottom-right"}
                           THEN Max(20, y - stickerY) ELSE sticker.style.height
          IN <<UpdateOp(sticker.id,
                        [style |-> [sticker.style EXCEPT !.width = newWidth,
                                                         !.height = newHeight]],
                        t)>>

\* handleStickerDrop: the updateDecoration call it makes, if any.
DropUpdates(decs, stickerId, x, y, ds, mode, cell, t) ==
  LET col == x \div cell.width
      row == IF mode = "weekly" THEN 0 ELSE y \div cell.height
      dayIndex == row * 7 + col
      found == FindById(decs, stickerId)
      base == IF found # Null THEN found.position
              ELSE [offsetY |-> 0, zIndex |-> 100]
  IN IF dayIndex >= 0 /\ dayIndex < Len(ds)
     THEN <<UpdateOp(stickerId,
                     [position |-> Merge(base, [dateX |-> toISOString(ds[dayIndex + 1])])],
                     t)>>
     ELSE <<>>

\* The canvas not in use.
\* The document events the canvas listens to during a gesture.
GestureEvents == {"mousemove", "mouseup"}

\* The listener effect without the cleanup it returns.
ListenerEffectNoCleanup(attached, dragged, resizing) ==
  attached \cup (IF dragged # Null \/ resizing # Null THEN GestureEvents ELSE {})

\* The listener effect after a render with the given gesture state: the cleanup
\* of its previous run, then its body.
ListenerEffect(attached, dragged, resizing) ==
  (attached \ GestureEvents)
    \cup (IF dragged # Null \/ resizing # Null THEN GestureEvents ELSE {})

CanvasStart(date, mode, tz) ==
  /\ selectedDate = date
  /\ viewMode = mode
  /\ draggedSticker = Null
  /\ resizingSticker = Null
  /\ listeners = {}
  /\ timeZone = tz

CanvasIdle == CanvasStart(0, "monthly", 0)

\* ------------------------------------------------------------------ PDF export
\* Coordinates are exact fractions: a point sampled at t = i / segments is held
\* by its numerators over the common denominator segments^3.
Cube(n) == n * n * n

\* A flattening that stops one sample short of the end of the curve.
SamplesOpen(c) ==
  [k \in 1..c.segments |->
     LET i == k - 1
         n == c.segments
     IN [op |-> IF i = 0 THEN "moveTo" ELSE "lineTo",
         x |-> Cube(n - i) * c.x0 + 3 * (n - i) * (n - i) * i * c.x1
               + 3 * (n - i) * i * i * c.x2 + Cube(i) * c.x3,
         y |-> Cube(n - i) * c.y0 + 3 * (n - i) * (n - i) * i * c.y1
               + 3 * (n - i) * i * i * c.y2 + Cube(i) * c.y3,
         over |-> Cube(n)]]

\* The loop of approximateBezier: for i = 0..segments, t = i / segments,
\* mt = 1 - t, x = mt^3 x0 + 3 mt^2 t x1 + 3 mt t^2 x2 + t^3 x3 (y likewise),
\* moveTo for i = 0 and lineTo for the others.
Samples(c) ==
  [k \in 1..(c.segments + 1) |->
     LET i == k - 1
         n == c.segments
     IN [op |-> IF i = 0 THEN "moveTo" ELSE "lineTo",
         x |-> Cube(n - i) * c.x0 + 3 * (n - i) * (n - i) * i * c.x1
               + 3 * (n - i) * i * i * c.x2 + Cube(i) * c.x3,
         y |-> Cube(n - i) * c.y0 + 3 * (n - i) * (n - i) * i * c.y1
               + 3 * (n - i) * i * i * c.y2 + Cube(i) * c.y3,
         over |-> Cube(n)]]

\* approximateBezier: the samples, then this.doc.stroke().
ApproximateBezier(c) == Samples(c) \o <<[op |-> "stroke"]>>

ExportIdle ==
  /\ doc = <<>>
  /\ lastCurve = Null

\* ------------------------------------------------------------------ useOnlineStatus
\* The hook's state as one value: the status state and the retry timer.

\* What a callback created in a render captures of status: attemptReconnect
\* reads status.connectionAttempts and status.maxRetries of that render.
Closure(st) == [connectionAttempts |-> st.connectionAttempts, maxRetries |-> st.maxRetries]

\* updateStatus(isOnline)
updateStatus(h, isOnline) ==
  [status |-> [h.status EXCEPT !.isOnline = isOnline,
                               !.isConnecting = FALSE,
                               !.connectionAttempts = IF isOnline THEN 0 ELSE @],
   timer |-> IF isOnline THEN Null ELSE h.timer]

\* attemptReconnect() as created in the render that captured the given values:
\* the test reads the captured status, the update reads the current one, and
\* the timer scheduled calls this same function again.
attemptReconnect(h, captured) ==
  IF captured.connectionAttempts >= captured.maxRetries
  THEN h
  ELSE [status |-> [h.status EXCEPT !.isConnecting = TRUE,
                                    !.connectionAttempts = @ + 1],
        timer |-> captured]

\* The render after a handler, and the effect of lines 172-202. A change of
\* connectionAttempts or maxRetries makes a new attemptReconnect, so new
\* handleOnline and handleOffline, so the effect runs again: its cleanup clears
\* the retry timer and its body calls updateStatus(navigator.onLine).
Commit(before, h, onLine) ==
  IF Closure(h.status) = Closure(before)
  THEN h
  ELSE updateStatus([h EXCEPT !.timer = Null], onLine)

\* The hook as mounted with the given maxRetries.
OnlineStart(onLine, maxRetries) ==
  /\ navigatorOnLine = onLine
  /\ status = [isOnline |-> onLine, isConnecting |-> FALSE, connectionAttempts |-> 0,
               maxRetries |-> maxRetries]
  /\ retryTimeoutRef = Null
  /\ checks = <<>>

OnlineIdle == OnlineStart(TRUE, 3)

\* ------------------------------------------------------------------ initial state
\* The store as create() leaves it (lines 62-78), observers at rest.
StoreStart(lim, obs) ==
  /\ events = <<>>
  /\ decorations = <<>>
  /\ handwriting = <<>>
  /\ tasks = <<>>
  /\ visibility = [l \in Layers |-> TRUE]
  /\ syncQueue = <<>>
  /\ history = <<>>
  /\ historyIndex = -1
  /\ now = 0
  /\ inFlight = <<>>
  /\ lastStep = Step("call")
  /\ run = NoRun
  /\ callLog = <<>>
  /\ undelivered = {}
  /\ scen = [step |-> 0, e |-> Null]
  /\ calls = 0
  /\ observeRuns = obs
  /\ limit = lim

Start(lim, obs) ==
  StoreStart(lim, obs) /\ ReplicasIdle /\ HookIdle /\ CanvasIdle /\ ExportIdle
    /\ OnlineIdle

Init == Start(MaxCalls, FALSE)

\* ------------------------------------------------------------------ operations
Room(n) == calls + n <= limit

\* A local add/update/delete call: the handler's result s2 becomes the store.
Mutation(op, args, s2, call) ==
  /\ Room(1)
  /\ SetStore(s2)
  /\ lastStep' = [kind |-> op, batch |-> args]
  /\ run' = RunAfterMutation(Store, s2)
  /\ callLog' = Append(callLog, call)
  /\ undelivered' = undelivered \cup NewOps(Store, s2)
  /\ scen' = ScenAfter(op, args)
  /\ calls' = calls + 1
  /\ UNCHANGED <<env, inFlight>>

Call(type, layer, id) == [type |-> type, layer |-> layer, entityId |-> id]

addEvent ==
  \E event \in Entities("events") :
    Mutation("addEvent", <<event>>, AddEntity(Store, "events", event, now),
             Call("create", "events", event.id))

updateEvent ==
  \E id \in LayerIds("events"), updates \in Partials :
    Mutation("updateEvent", <<id, updates>>, UpdateEntity(Store, "events", id, updates, now),
             Call("update", "events", id))

deleteEvent ==
  \E id \in LayerIds("events") :
    Mutation("deleteEvent", <<id>>, DeleteEntity(Store, "events", id, now),
             Call("delete", "events", id))

addDecoration ==
  \E decoration \in Entities("decorations") :
    Mutation("addDecoration", <<decoration>>,
             AddEntity(Store, "decorations", decoration, now),
             Call("create", "decorations", decoration.id))

updateDecoration ==
  \E id \in LayerIds("decorations"), updates \in Partials :
    Mutation("updateDecoration", <<id, updates>>,
             UpdateEntity(Store, "decorations", id, updates, now),
             Call("update", "decorations", id))

deleteDecoration ==
  \E id \in LayerIds("decorations") :
    Mutation("deleteDecoration", <<id>>, DeleteEntity(Store, "decorations", id, now),
             Call("delete", "decorations", id))

addStroke ==
  \E stroke \in Entities("handwriting") :
    Mutation("addStroke", <<stroke>>, AddEntity(Store, "handwriting", stroke, now),
             Call("create", "handwriting", stroke.id))

deleteStroke ==
  \E id \in LayerIds("handwriting") :
    Mutation("deleteStroke", <<id>>, DeleteEntity(Store, "handwriting", id, now),
             Call("delete", "handwriting", id))

addTask ==
  \E task \in Entities("tasks") :
    Mutation("addTask", <<task>>, AddEntity(Store, "tasks", task, now),
             Call("create", "tasks", task.id))

updateTask ==
  \E id \in LayerIds("tasks"), updates \in Partials :
    Mutation("updateTask", <<id, updates>>, UpdateEntity(Store, "tasks", id, updates, now),
             Call("update", "tasks", id))

deleteTask ==
  \E id \in LayerIds("tasks") :
    Mutation("deleteTask", <<id>>, DeleteEntity(Store, "tasks", id, now),
             Call("delete", "tasks", id))

toggleLayerVisibility ==
  \E layer \in Layers :
    /\ Room(1)
    /\ calls' = calls + 1
    /\ SetStore(ToggleVisibility(Store, layer))
    /\ lastStep' = [kind |-> "toggle", batch |-> <<layer>>]
    /\ run' = NoRun
    /\ scen' = ScenAfter("other", <<>>)
    /\ UNCHANGED <<env, inFlight, callLog, undelivered>>

undo ==
  /\ SetStore(Undo(Store))
  /\ lastStep' = Step("call")
  /\ run' = RunAfterUndo
  /\ scen' = ScenAfter("undo", <<>>)
  /\ UNCHANGED <<env, inFlight, callLog, undelivered, calls>>

redo ==
  /\ SetStore(Redo(Store))
  /\ lastStep' = Step("call")
  /\ run' = RunAfterRedo
  /\ scen' = ScenAfter("other", <<>>)
  /\ UNCHANGED <<env, inFlight, callLog, undelivered, calls>>

\* syncService.sendOperations(queue): the transport takes the batch and answers
\* later, accepting it (the await returns) or rejecting it (the await throws).
sendOperations(queue) == <<queue>>

\* processSyncQueue up to its await (line 274, the transport call): the queue
\* is read and, unless it is empty, handed to the transport as one batch; the
\* call then waits for the answer. Drains are issued one at a time.
processSyncQueue ==
  /\ inFlight = <<>>
  /\ LET queue == syncQueue
     IN IF Len(queue) = 0
        THEN UNCHANGED inFlight
        ELSE inFlight' = sendOperations(queue)
  /\ lastStep' = Step("call")
  /\ UNCHANGED <<storeVars, env, calls, run, callLog, undelivered, scen>>

\* A success path that removes only the first queued operation.
processSyncQueueThenDropsHead ==
  /\ inFlight # <<>>
  /\ syncQueue' = Tail(syncQueue)
  /\ inFlight' = <<>>
  /\ callLog' = <<>>
  /\ undelivered' = undelivered \ Range(inFlight[1])
  /\ lastStep' = [kind |-> "accepted", batch |-> inFlight[1]]
  /\ UNCHANGED <<events, decorations, handwriting, tasks, visibility,
                 history, historyIndex, env, calls, run, scen>>

\* The transport accepted the batch; the call resumes after its await, inside
\* try: set({ syncQueue: [] }).
processSyncQueueThen ==
  /\ inFlight # <<>>
  /\ syncQueue' = <<>>
  /\ inFlight' = <<>>
  /\ callLog' = <<>>
  /\ undelivered' = undelivered \ Range(inFlight[1])
  /\ lastStep' = [kind |-> "accepted", batch |-> inFlight[1]]
  /\ UNCHANGED <<events, decorations, handwriting, tasks, visibility,
                 history, historyIndex, env, calls, run, scen>>

\* A failure path that discards the queue.
processSyncQueueCatchDiscards ==
  /\ inFlight # <<>>
  /\ inFlight' = <<>>
  /\ syncQueue' = <<>>
  /\ lastStep' = [kind |-> "rejected", batch |-> inFlight[1]]
  /\ UNCHANGED <<events, decorations, handwriting, tasks, visibility,
                 history, historyIndex, env, calls, run, callLog, undelivered, scen>>

\* The transport failed and the await threw:
\* catch (error) { console.error('Sync failed:', error) }.
processSyncQueueCatch ==
  /\ inFlight # <<>>
  /\ inFlight' = <<>>
  /\ lastStep' = [kind |-> "rejected", batch |-> inFlight[1]]
  /\ UNCHANGED <<storeVars, env, calls, run, callLog, undelivered, scen>>

applyRemoteChangesOf(batches) ==
  \E operations \in batches :
    LET s2 == ApplyAll(Store, operations, now)
        calls_ == CallsOf(operations)
    IN /\ Room(Len(calls_))
       /\ SetStore(s2)
       /\ lastStep' = (IF Len(operations) = 1 /\ operations[1].type = "create"
                       THEN [kind |-> "replay", batch |-> operations]
                       ELSE Step("call"))
       /\ run' = RunAfterCalls(PreStates(Store, operations, now), s2)
       /\ callLog' = callLog \o calls_
       /\ undelivered' = undelivered \cup NewOps(Store, s2)
       /\ scen' = ScenAfter("other", <<>>)
       /\ calls' = calls + Len(calls_)
       /\ UNCHANGED <<env, inFlight>>

applyRemoteChanges == applyRemoteChangesOf(RemoteBatches)

\* Inbound batches for the events layer only.
EventBatches == {b \in RemoteBatches : b[1].layer = "events"}
applyRemoteEvents == applyRemoteChangesOf(EventBatches)

Next ==
  \/ addEvent \/ updateEvent \/ deleteEvent
  \/ addDecoration \/ updateDecoration \/ deleteDecoration
  \/ addStroke \/ deleteStroke
  \/ addTask \/ updateTask \/ deleteTask
  \/ toggleLayerVisibility
  \/ undo \/ redo
  \/ processSyncQueue \/ processSyncQueueThen \/ processSyncQueueCatch
  \/ applyRemoteChanges

Spec == Init /\ [][Next]_vars

\* ------------------------------------------------------------------ undo timeline
\* The store without its drain, with runs of calls, undos and redos recorded.
InitHistory == Start(MaxCalls, TRUE)

NextHistory ==
  \/ addEvent \/ updateEvent \/ deleteEvent
  \/ addDecoration \/ updateDecoration \/ deleteDecoration
  \/ addStroke \/ deleteStroke
  \/ addTask \/ updateTask \/ deleteTask
  \/ toggleLayerVisibility
  \/ undo \/ redo
  \/ applyRemoteChanges

SpecHistory == InitHistory /\ [][NextHistory]_vars

\* ------------------------------------------------------------------ outbound queue
\* Local mutations and the drain, three calls deep.
InitSync == Start(MaxQueued, FALSE)

NextSync ==
  \/ addEvent \/ updateEvent \/ deleteEvent
  \/ addDecoration \/ updateDecoration \/ deleteDecoration
  \/ addStroke \/ deleteStroke
  \/ addTask \/ updateTask \/ deleteTask
  \/ processSyncQueue \/ processSyncQueueThen \/ processSyncQueueCatch

SpecSync == InitSync /\ [][NextSync]_vars

\* ------------------------------------------------------------------ events layer
\* The events layer alone, local and replayed calls, three calls deep.
InitEvents == Start(MaxQueued, FALSE)

NextEvents == addEvent \/ updateEvent \/ deleteEvent \/ applyRemoteEvents

SpecEvents == InitEvents /\ [][NextEvents]_vars

\* ------------------------------------------------------------------ replica exchange
\* Two stores start from the same LayerState; each makes one local call on the
\* events layer, then each applies the operation the other one queued.
InitReplicas ==
  /\ StoreStart(0, FALSE)
  /\ \E evs \in SharedEvents : replica = [r \in Replicas |-> StoreWith(evs)]
  /\ clock \in [Replicas -> Stamps]
  /\ applied = [r \in Replicas |-> FALSE]
  /\ localState = [r \in Replicas |-> Null]
  /\ HookIdle
  /\ CanvasIdle
  /\ ExportIdle
  /\ OnlineIdle

singleStore == <<storeVars, now, inFlight, calls, lastStep, run, callLog, undelivered,
                 scen, observeRuns, limit, canvasVars, exportVars, onlineVars>>

\* The local call of replica r leaves it in store state s2.
LocalCall(r, s2) ==
  /\ localState[r] = Null
  /\ replica' = [replica EXCEPT ![r] = s2]
  /\ localState' = [localState EXCEPT ![r] = LayerStateOf(s2)]
  /\ UNCHANGED <<singleStore, hookVars, clock, applied>>

replicaUpdateEvent ==
  \E r \in Replicas, id \in Ids, updates \in ReplicaPartials :
    LocalCall(r, UpdateEntity(replica[r], "events", id, updates, clock[r]))

replicaDeleteEvent ==
  \E r \in Replicas, id \in Ids :
    LocalCall(r, DeleteEntity(replica[r], "events", id, clock[r]))

\* Replica r receives the operation the other replica queued with its local
\* call and runs applyRemoteChanges on it.
replicaApplyRemoteChanges ==
  \E r \in Replicas :
    /\ \A q \in Replicas : localState[q] # Null
    /\ ~applied[r]
    /\ LET operations == <<replica[Other(r)].syncQueue[1]>>
       IN replica' = [replica EXCEPT ![r] = ApplyAll(replica[r], operations, clock[r])]
    /\ applied' = [applied EXCEPT ![r] = TRUE]
    /\ UNCHANGED <<singleStore, hookVars, clock, localState>>

NextReplicas == replicaUpdateEvent \/ replicaDeleteEvent \/ replicaApplyRemoteChanges

SpecReplicas == InitReplicas /\ [][NextReplicas]_vars

\* ------------------------------------------------------------------ useHistory calls
\* One hook instance; its callers make one call per event.
InitHook ==
  /\ StoreStart(0, FALSE)
  /\ ReplicasIdle
  /\ \E diffing \in BOOLEAN, maxLen \in 1..MaxHistoryLength :
       HookStart([title |-> "a", startTime |-> Date(1)], diffing, maxLen)
  /\ CanvasIdle
  /\ ExportIdle
  /\ OnlineIdle

storeSide == <<singleStore, replicaVars>>
options == <<enableDiffing, maxHistoryLength>>

\* Another history call made while a debounced save is pending.
BurstDisturbed == NoBurst

\* saveToHistory(newState): clearTimeout, then setTimeout(..., debounceTime).
saveToHistory ==
  \E newState \in HookStates :
    /\ debounceTimer' = [newState |-> newState]
    /\ burst' = IF debounceTimer = Null
                THEN [before |-> HistoryState, count |-> 1, clean |-> TRUE,
                      cancelled |-> FALSE, raced |-> FALSE]
                ELSE [burst EXCEPT !.count = IF @ < 2 THEN @ + 1 ELSE @,
                                   !.cancelled = FALSE, !.raced = FALSE]
    /\ hookStep' = "call"
    /\ UNCHANGED <<historyState, lastStateRef, renderedPresent, options, savedPresent,
                   storeSide>>

\* A timer callback that keeps the redoable states.
timerFiresKeepsFuture ==
  /\ debounceTimer # Null
  /\ LET newState == debounceTimer.newState
     IN /\ setHistoryState([PushState(HistoryState, newState, enableDiffing,
                                       maxHistoryLength) EXCEPT !.future = future])
        /\ lastStateRef' = newState
        /\ hookStep' = "timerFires"
  /\ debounceTimer' = Null
  /\ burst' = [NoBurst EXCEPT !.raced = ~burst.clean]
  /\ UNCHANGED <<renderedPresent, options, savedPresent, storeSide>>

\* The quiet window (debounceTime) has elapsed: the timer's callback runs.
timerFires ==
  /\ debounceTimer # Null
  /\ LET newState == debounceTimer.newState
     IN /\ setHistoryState(PushState(HistoryState, newState, enableDiffing,
                                      maxHistoryLength))
        /\ lastStateRef' = newState
        /\ hookStep' = "timerFires"
  /\ debounceTimer' = Null
  /\ burst' = [NoBurst EXCEPT !.raced = ~burst.clean]
  /\ UNCHANGED <<renderedPresent, options, savedPresent, storeSide>>

\* saveToHistoryImmediate without its clearTimeout.
saveToHistoryImmediateKeepsTimer ==
  \E newState \in HookStates :
    /\ setHistoryState(PushState(HistoryState, newState, enableDiffing, maxHistoryLength))
    /\ lastStateRef' = newState
    /\ burst' = [NoBurst EXCEPT !.cancelled = debounceTimer # Null]
    /\ hookStep' = "saveToHistoryImmediate"
    /\ UNCHANGED <<debounceTimer, renderedPresent, options, savedPresent, storeSide>>

saveToHistoryImmediate ==
  \E newState \in HookStates :
    /\ debounceTimer' = Null
    /\ setHistoryState(PushState(HistoryState, newState, enableDiffing, maxHistoryLength))
    /\ lastStateRef' = newState
    /\ burst' = [NoBurst EXCEPT !.cancelled = debounceTimer # Null]
    /\ hookStep' = "saveToHistoryImmediate"
    /\ UNCHANGED <<renderedPresent, options, savedPresent, storeSide>>

hookUndo ==
  /\ setHistoryState(HookUndo(HistoryState))
  /\ burst' = BurstDisturbed
  /\ hookStep' = "undo"
  /\ UNCHANGED <<debounceTimer, lastStateRef, renderedPresent, options, savedPresent,
                 storeSide>>

hookRedo ==
  /\ setHistoryState(HookRedo(HistoryState))
  /\ burst' = BurstDisturbed
  /\ hookStep' = "redo"
  /\ UNCHANGED <<debounceTimer, lastStateRef, renderedPresent, options, savedPresent,
                 storeSide>>

\* Indexes given to jumpTo: every position of the longest timeline, and one
\* beyond it on either side.
JumpIndexes == -1..(MaxHistoryLength + 1)

jumpTo ==
  \E index \in JumpIndexes :
    /\ setHistoryState(JumpTo(HistoryState, index, maxHistoryLength))
    /\ burst' = BurstDisturbed
    /\ hookStep' = "jumpTo"
    /\ UNCHANGED <<debounceTimer, lastStateRef, renderedPresent, options, savedPresent,
                   storeSide>>

\* clearHistory reads historyState.present from the render it was created in.
clearHistory ==
  /\ setHistoryState([past |-> <<>>, present |-> renderedPresent, future |-> <<>>,
                      lastSavedIndex |-> -1])
  /\ burst' = BurstDisturbed
  /\ hookStep' = "call"
  /\ savedPresent' = Null
  /\ UNCHANGED <<debounceTimer, lastStateRef, renderedPresent, options, storeSide>>

markAsSaved ==
  /\ lastSavedIndex' = Len(past)
  /\ savedPresent' = present
  /\ hookStep' = "call"
  /\ UNCHANGED <<past, present, future, debounceTimer, lastStateRef, renderedPresent,
                 options, burst, storeSide>>

\* React renders the component again with the committed historyState.
render ==
  /\ renderedPresent # present
  /\ renderedPresent' = present
  /\ hookStep' = "call"
  /\ UNCHANGED <<historyState, debounceTimer, lastStateRef, options, burst, savedPresent,
                 storeSide>>

NextHook ==
  \/ saveToHistory \/ timerFires \/ saveToHistoryImmediate
  \/ hookUndo \/ hookRedo \/ jumpTo \/ clearHistory \/ markAsSaved
  \/ render

SpecHook == InitHook /\ [][NextHook]_vars

\* The calls that read or write past, present, future and the timer: every
\* call but markAsSaved, which only moves lastSavedIndex.
NextSaves ==
  \/ saveToHistory \/ timerFires \/ saveToHistoryImmediate
  \/ hookUndo \/ hookRedo \/ jumpTo \/ clearHistory
  \/ render

SpecSaves == InitHook /\ [][NextSaves]_vars

\* ------------------------------------------------------------------ calendar canvas events
\* One canvas over the store: stickers are added from the toolbar, dragged,
\* resized and dropped; the page is changed with the view controls.
TimeZones == {-5, 2}
SelectedDays == {3, 30}
ViewModes == {"monthly", "weekly"}
Handles == {"right", "bottom", "bottom-right"}
PointerXs == {5, 35, 155}
PointerYs == {5, 15, 35}
GrabOffsets == {[x |-> 10, y |-> 10]}

\* A moment of the given local day (early afternoon).
Noon(day, tz) == Midnight(day, tz) + 13

\* The store and the canvas as mounted, in one of the given time zones.
CanvasMounted(zones) ==
  /\ StoreStart(MaxCanvasCalls, FALSE)
  /\ ReplicasIdle
  /\ HookIdle
  /\ ExportIdle
  /\ OnlineIdle
  /\ \E tz \in zones : CanvasStart(Noon(3, tz), "monthly", tz)

InitCanvas == CanvasMounted({2})

\* What the view controls and the gesture state setters leave alone. The
\* listener effect runs with the commit of the render that a gesture setter
\* causes.
canvasFrame == <<storeVars, now, inFlight, calls, run, callLog, undelivered, scen,
                 observeRuns, limit, replicaVars, hookVars, timeZone, exportVars,
                 onlineVars>>

setSelectedDate ==
  \E day \in SelectedDays :
    /\ selectedDate' = Noon(day, timeZone)
    /\ lastStep' = Step("call")
    /\ UNCHANGED <<canvasFrame, viewMode, draggedSticker, resizingSticker, listeners>>

setViewMode ==
  \E mode \in ViewModes :
    /\ viewMode' = mode
    /\ lastStep' = Step("call")
    /\ UNCHANGED <<canvasFrame, selectedDate, draggedSticker, resizingSticker, listeners>>

\* EnhancedStickerToolbar.handleStickerSelect: a sticker anchored to the
\* selected date is added to the decorations layer.
handleStickerSelect ==
  LET newSticker == [id |-> "e1", type |-> "sticker", imageUrl |-> "party.png",
                     position |-> [dateX |-> toISOString(selectedDate),
                                   offsetY |-> 0, zIndex |-> 100],
                     style |-> [width |-> 40, height |-> 40, rotation |-> 0,
                                opacity |-> 1]]
  IN /\ newSticker.id \notin IdsOf(decorations)
     /\ Mutation("addDecoration", <<newSticker>>,
                 AddEntity(Store, "decorations", newSticker, now),
                 Call("create", "decorations", newSticker.id))

\* Stickers the decoration layer renders with their mouse handlers.
RenderedStickers ==
  IF visibility["decorations"]
  THEN {decorations[i].id : i \in {j \in 1..Len(decorations) : decorations[j].type = "sticker"}}
  ELSE {}

\* Stickers rendered with their three resize handles: those with an image.
ResizableStickers ==
  {id \in RenderedStickers : "imageUrl" \in DOMAIN FindById(decorations, id)}

\* onMouseDown on a sticker's body.
startDraggingSticker ==
  \E stickerId \in RenderedStickers, grab \in GrabOffsets :
    /\ draggedSticker' = [id |-> stickerId, initialX |-> grab.x, initialY |-> grab.y]
    /\ listeners' = ListenerEffect(listeners, draggedSticker', resizingSticker)
    /\ lastStep' = Step("call")
    /\ UNCHANGED <<canvasFrame, selectedDate, viewMode, resizingSticker>>

\* onMouseDown on one of a sticker's three resize handles.
startResizingSticker ==
  \E stickerId \in ResizableStickers, handle \in Handles :
    /\ resizingSticker' = [id |-> stickerId, handle |-> handle]
    /\ listeners' = ListenerEffect(listeners, draggedSticker, resizingSticker')
    /\ lastStep' = Step("call")
    /\ UNCHANGED <<canvasFrame, selectedDate, viewMode, draggedSticker>>

\* A canvas handler that makes the given updateDecoration calls, one after the
\* other, on the store.
CanvasCalls(handler, args, operations) ==
  /\ operations = <<>> \/ Room(1)
  /\ \E s2 \in {ApplyAll(Store, operations, now)} :
       /\ SetStore(s2)
       /\ run' = RunAfterCalls(PreStates(Store, operations, now), s2)
       /\ undelivered' = undelivered \cup NewOps(Store, s2)
  /\ lastStep' = [kind |-> handler, batch |-> args]
  /\ callLog' = callLog \o CallsOf(operations)
  /\ scen' = ScenAfter("other", <<>>)
  /\ calls' = calls + Len(operations)
  /\ UNCHANGED <<env, inFlight>>

\* The document's mousemove listener, attached while a gesture is active: the
\* drag branch, then the resize branch, both reading the decorations of the
\* last render.
handleMouseMove ==
  \E x \in PointerXs, y \in PointerYs, ds \in {days} :
    /\ "mousemove" \in listeners
    /\ \E operations \in
           {(IF draggedSticker # Null
             THEN DragUpdates(decorations, draggedSticker, x, y, ds, viewMode,
                              cellDimensions, now)
             ELSE <<>>)
            \o
            (IF resizingSticker # Null
             THEN ResizeUpdates(decorations, resizingSticker, x, y, ds, viewMode,
                                cellDimensions, timeZone, now)
             ELSE <<>>)} :
         CanvasCalls("handleMouseMove", <<x, y>>, operations)

\* The document's mouseup listener.
handleMouseUp ==
  /\ "mouseup" \in listeners
  /\ draggedSticker' = Null
  /\ resizingSticker' = Null
  /\ listeners' = ListenerEffect(listeners, draggedSticker', resizingSticker')
  /\ lastStep' = Step("call")
  /\ UNCHANGED <<canvasFrame, selectedDate, viewMode>>

\* Events that interrupt a gesture: the window loses focus, or the browser
\* cancels the pointer.
InterruptEvents == {"blur", "pointercancel"}

\* One of them arrives during a gesture. The canvas has attached no listener
\* for it, so no code of the canvas runs.
gestureInterrupted ==
  \E type \in InterruptEvents :
    /\ draggedSticker # Null \/ resizingSticker # Null
    /\ type \notin listeners
    /\ lastStep' = Step(type)
    /\ UNCHANGED <<canvasFrame, selectedDate, viewMode, draggedSticker, resizingSticker,
                   listeners>>

\* onDrop on the canvas with a stickerId in the drag data.
handleStickerDrop ==
  \E stickerId \in LayerIds("decorations"), x \in PointerXs, y \in PointerYs,
     ds \in {days} :
    \E operations \in {DropUpdates(decorations, stickerId, x, y, ds, viewMode,
                                   cellDimensions, now)} :
      CanvasCalls("handleStickerDrop", <<x, y>>, operations)

\* Gestures on the canvas.
NextCanvas ==
  \/ setSelectedDate \/ setViewMode
  \/ handleStickerSelect
  \/ startDraggingSticker \/ startResizingSticker
  \/ handleMouseMove \/ handleMouseUp

SpecCanvas == InitCanvas /\ [][NextCanvas]_vars

\* Gestures on one page, with the events that interrupt them.
InitInterrupt == CanvasMounted({2})

NextInterrupt ==
  \/ handleStickerSelect
  \/ startDraggingSticker \/ startResizingSticker
  \/ handleMouseMove \/ handleMouseUp
  \/ gestureInterrupted

SpecInterrupt == InitInterrupt /\ [][NextInterrupt]_vars

\* Resizing only: the gesture that looks positions up with dateToPosition, in
\* every time zone.
InitGrid == CanvasMounted(TimeZones)

NextGrid ==
  \/ setSelectedDate \/ setViewMode
  \/ handleStickerSelect
  \/ startResizingSticker
  \/ handleMouseMove \/ handleMouseUp

SpecGrid == InitGrid /\ [][NextGrid]_vars

\* Changing the page under stickers that are added, dropped and undone.
InitPage == CanvasMounted(TimeZones)

NextPage ==
  \/ setSelectedDate \/ setViewMode
  \/ handleStickerSelect
  \/ handleStickerDrop
  \/ undo

SpecPage == InitPage /\ [][NextPage]_vars

\* ------------------------------------------------------------------ PDF export calls
\* One curve is flattened into an empty document.
DefaultSegments == 20
SegmentCounts == (1..MaxSegments) \cup {DefaultSegments}
Coordinates == {-2, 5}

Curves ==
  [x0 : Coordinates, y0 : Coordinates, x1 : Coordinates, y1 : Coordinates,
   x2 : Coordinates, y2 : Coordinates, x3 : Coordinates, y3 : Coordinates,
   segments : SegmentCounts]

InitExport ==
  /\ StoreStart(0, FALSE)
  /\ ReplicasIdle
  /\ HookIdle
  /\ CanvasIdle
  /\ ExportIdle
  /\ OnlineIdle

\* What the exporter leaves alone.
exportFrame == <<storeVars, now, inFlight, calls, lastStep, run, callLog, undelivered,
                 scen, observeRuns, limit, canvasVars, replicaVars, hookVars,
                 onlineVars>>

approximateBezier ==
  \E c \in Curves :
    /\ doc = <<>>
    /\ doc' = doc \o ApproximateBezier(c)
    /\ lastCurve' = c
    /\ UNCHANGED exportFrame

NextExport == approximateBezier

SpecExport == InitExport /\ [][NextExport]_vars

\* ------------------------------------------------------------------ remote replay calls
\* Inbound batches for every layer, replayed into a store that also takes
\* local calls and undo.
InitReplay == Start(MaxCalls, FALSE)

NextReplay == addEvent \/ addStroke \/ undo \/ applyRemoteChanges

SpecReplay == InitReplay /\ [][NextReplay]_vars

\* ------------------------------------------------------------------ useOnlineStatus calls
\* One mounted hook: the browser goes offline and online, connectivity checks
\* are answered, and the component calls the functions the hook returns.
RetryLimits == {1, 2}

\* How a connectivity check ends: the fetch answers ok; it fails or answers
\* not ok (checkConnectivity returns false); its 5 s timeout aborts it
\* (checkConnectivity rethrows the AbortError).
Outcomes == {"connected", "unreachable", "aborted"}

Hook == [status |-> status, timer |-> retryTimeoutRef]

\* A handler has run: React renders and runs the effect.
SetHook(h, onLine) ==
  \E committed \in {Commit(Closure(status), h, onLine)} :
    /\ status' = committed.status
    /\ retryTimeoutRef' = committed.timer

InitOnline ==
  /\ StoreStart(0, FALSE)
  /\ ReplicasIdle
  /\ HookIdle
  /\ CanvasIdle
  /\ ExportIdle
  /\ \E onLine \in BOOLEAN, maxRetries \in RetryLimits : OnlineStart(onLine, maxRetries)

\* What the hook leaves alone.
onlineFrame == <<storeVars, now, inFlight, calls, lastStep, run, callLog, undelivered,
                 scen, observeRuns, limit, canvasVars, replicaVars, hookVars, exportVars>>

\* The window's offline event.
handleOffline ==
  /\ navigatorOnLine
  /\ navigatorOnLine' = FALSE
  /\ SetHook(attemptReconnect(updateStatus(Hook, FALSE), Closure(status)), FALSE)
  /\ UNCHANGED <<checks, onlineFrame>>

\* The window's online event: checkConnectivity() starts its fetch; the
\* continuation keeps the attemptReconnect of this render.
handleOnline ==
  /\ ~navigatorOnLine
  /\ Len(checks) < MaxChecks
  /\ navigatorOnLine' = TRUE
  /\ checks' = Append(checks, [from |-> "handleOnline", captured |-> Closure(status)])
  /\ UNCHANGED <<status, retryTimeoutRef, onlineFrame>>

\* checkConnection(): with navigator.onLine false checkConnectivity returns
\* false at once; otherwise it starts its fetch.
checkConnection ==
  /\ Len(checks) < MaxChecks
  /\ IF navigatorOnLine
     THEN /\ checks' = Append(checks, [from |-> "checkConnection",
                                       captured |-> Closure(status)])
          /\ UNCHANGED <<status, retryTimeoutRef>>
     ELSE /\ SetHook(updateStatus(Hook, FALSE), navigatorOnLine)
          /\ UNCHANGED checks
  /\ UNCHANGED <<navigatorOnLine, onlineFrame>>

\* A connectivity check is answered and its continuation runs.
checkSettles ==
  \E i \in 1..Len(checks), outcome \in Outcomes :
    /\ outcome = "connected" => navigatorOnLine
    /\ LET check == checks[i]
           retries == check.from = "handleOnline"
           after ==
             CASE outcome = "connected" -> updateStatus(Hook, TRUE)
               [] outcome = "unreachable" ->
                    IF retries
                    THEN attemptReconnect(updateStatus(Hook, FALSE), check.captured)
                    ELSE updateStatus(Hook, FALSE)
               [] outcome = "aborted" ->
                    IF retries THEN attemptReconnect(Hook, check.captured) ELSE Hook
       IN SetHook(after, navigatorOnLine)
    /\ checks' = SubSeq(checks, 1, i - 1) \o SubSeq(checks, i + 1, Len(checks))
    /\ UNCHANGED <<navigatorOnLine, onlineFrame>>

\* The change event of navigator.connection.
connectionChanged ==
  /\ SetHook(updateStatus(Hook, navigatorOnLine), navigatorOnLine)
  /\ UNCHANGED <<navigatorOnLine, checks, onlineFrame>>

resetConnectionAttempts ==
  /\ SetHook([Hook EXCEPT !.status.connectionAttempts = 0], navigatorOnLine)
  /\ UNCHANGED <<navigatorOnLine, checks, onlineFrame>>

updateRetryConfig ==
  \E maxRetries \in RetryLimits :
    /\ SetHook([Hook EXCEPT !.status.maxRetries = maxRetries], navigatorOnLine)
    /\ UNCHANGED <<navigatorOnLine, checks, onlineFrame>>

NextOnline ==
  \/ handleOffline \/ handleOnline
  \/ checkConnection \/ checkSettles
  \/ connectionChanged
  \/ resetConnectionAttempts \/ updateRetryConfig

SpecOnline == InitOnline /\ [][NextOnline]_vars

\* ------------------------------------------------------------------ edits after undo
\* The two undo mechanisms side by side: a behaviour exercises either the
\* store's history or one useHistory instance (the two share no state).
InitEdits == InitHistory \/ InitHook

NextEdits == NextHistory \/ (maxHistoryLength > 0 /\ NextSaves)

SpecEdits == InitEdits /\ [][NextEdits]_vars

\* ------------------------------------------------------------------ properties
\* run records a sequence of add/update/delete calls (pre: the LayerState before
\* each call, post: the LayerState after the last), then the undos that follow
\* it, then the redos that follow those.

\* C1: after N add/update/delete calls, N undos leave events, decorations,
\* handwriting, tasks and visibility as they were before the N calls (for
\* every N up to the length of the recorded sequence).
C1_UndoRoundTrip ==
  (run.undos >= 1 /\ run.redos = 0)
    => LayerStateOf(Store) = run.pre[Len(run.pre) - run.undos + 1]

C1_TwoCallsUndone ==
  /\ Len(run.pre) = 2 /\ run.undos = 2 /\ run.redos = 0
  /\ run.pre[1] # run.pre[2] /\ run.pre[2] # run.post

\* C2: after N add/update/delete calls and N undos, N redos leave the five
\* fields as they were right after the N calls.
C2_RedoRoundTrip ==
  (run.undos >= 1 /\ run.redos = run.undos) => LayerStateOf(Store) = run.post

\* C4: a single add/update/delete/toggleLayerVisibility call moves historyIndex
\* up by one, leaves exactly one new snapshot there, equal to the four layers
\* and visibility as they were before the call, at the top of history, and
\* leaves the snapshots below it as they were.
C4_SnapshotPerCall ==
  [][calls' = calls + 1 =>
       /\ historyIndex' = historyIndex + 1
       /\ Len(history') = historyIndex' + 1
       /\ history'[historyIndex' + 1] =
            [events |-> events, decorations |-> decorations,
             handwriting |-> handwriting, tasks |-> tasks, visibility |-> visibility]
       /\ SubSeq(history', 1, historyIndex + 1) = SubSeq(history, 1, historyIndex + 1)]_vars

C4_TwoSnapshots ==
  /\ Len(run.pre) = 2 /\ run.undos = 0 /\ run.redos = 0
  /\ history = run.pre /\ historyIndex = 1
  /\ history[1] # history[2]

\* callLog records, from each handler's name and arguments, the calls made since
\* syncQueue was last cleared.
QueueMatches(queue, log) ==
  /\ Len(queue) = Len(log)
  /\ \A i \in 1..Len(queue) :
       /\ queue[i].type = log[i].type
       /\ queue[i].layer = log[i].layer
       /\ queue[i].entityId = log[i].entityId

IsPrefix(a, b) == Len(a) <= Len(b) /\ SubSeq(b, 1, Len(a)) = a

\* C3: each add/update/delete call appends exactly one operation at the end of
\* syncQueue, with the call's type, layer and entity id; syncQueue always lists
\* the calls made since it was last cleared, in call order; entries already
\* queued are neither changed nor moved.
C3_OneOperationPerCall ==
  [][/\ QueueMatches(syncQueue', callLog')
     /\ syncQueue' = <<>> \/ IsPrefix(syncQueue, syncQueue')
     /\ Len(callLog') = Len(callLog) + 1 =>
          /\ Len(syncQueue') = Len(syncQueue) + 1
          /\ syncQueue'[Len(syncQueue')].type = callLog'[Len(callLog')].type
          /\ syncQueue'[Len(syncQueue')].layer = callLog'[Len(callLog')].layer
          /\ syncQueue'[Len(syncQueue')].entityId = callLog'[Len(callLog')].entityId]_vars

C3_CreateThenDeleteQueued ==
  /\ Len(syncQueue) = 2 /\ Len(callLog) = 2
  /\ syncQueue[1].type = "create" /\ syncQueue[2].type = "delete"
  /\ syncQueue[1].layer # syncQueue[2].layer

LayerNext(l) ==
  CASE l = "events" -> events'
    [] l = "decorations" -> decorations'
    [] l = "handwriting" -> handwriting'
    [] l = "tasks" -> tasks'

\* C8: applyRemoteChanges([op]) applied again with the same create operation
\* leaves the layer as one application left it, with exactly one entity of
\* that id.
C8_IdempotentReplay ==
  [][(lastStep.kind = "replay" /\ lastStep' = lastStep /\ calls' # calls) =>
       LET op == lastStep.batch[1]
       IN /\ LayerNext(op.layer) = Store[op.layer]
          /\ Cardinality({i \in 1..Len(LayerNext(op.layer)) :
                            LayerNext(op.layer)[i].id = op.data.id}) = 1]_vars

\* C9: no layer holds two entities with the same id.
C9_UniqueIds ==
  \A l \in Layers : Cardinality(IdsOf(Store[l])) = Len(Store[l])

\* C11: toggleLayerVisibility(layer) negates visibility[layer] and no other
\* flag, pushes one snapshot (the state before the call) onto history, and
\* leaves syncQueue and the four layers as they were.
C11_ToggleFrame ==
  [][(lastStep'.kind = "toggle" /\ calls' = calls + 1) =>
       LET layer == lastStep'.batch[1]
       IN /\ visibility'[layer] = ~visibility[layer]
          /\ \A other \in Layers \ {layer} : visibility'[other] = visibility[other]
          /\ historyIndex' = historyIndex + 1
          /\ Len(history') = historyIndex + 2
          /\ history'[historyIndex' + 1] =
               [events |-> events, decorations |-> decorations,
                handwriting |-> handwriting, tasks |-> tasks, visibility |-> visibility]
          /\ UNCHANGED <<syncQueue, events, decorations, handwriting, tasks>>]_vars

C11_InkHiddenQueueKept ==
  /\ lastStep = [kind |-> "toggle", batch |-> <<"handwriting">>]
  /\ ~visibility["handwriting"] /\ visibility["events"]
  /\ Len(syncQueue) = 1 /\ historyIndex = 1

\* The operation replica r queued with its own call, and the one it received.
OwnOp(r) == replica[r].syncQueue[1]
RemoteOp(r) == replica[Other(r)].syncQueue[1]

\* C12: an update or delete received for an entity whose last local write (an
\* update) carries the greater timestamp leaves the events layer as the local
\* write left it.
C12_LastWriterWins ==
  \A r \in Replicas :
    (/\ applied[r]
     /\ OwnOp(r).type = "update"
     /\ RemoteOp(r).entityId = OwnOp(r).entityId
     /\ OwnOp(r).timestamp > RemoteOp(r).timestamp)
      => replica[r].events = localState[r].events

\* C13: after both replicas updated the same entity and each applied the
\* other's operation, the two hold the same LayerState.
C13_ReplicasConverge ==
  (/\ \A r \in Replicas : applied[r] /\ OwnOp(r).type = "update"
   /\ OwnOp("A").entityId = OwnOp("B").entityId)
    => LayerStateOf(replica["A"]) = LayerStateOf(replica["B"])

\* The single store call a step made (its type, layer and entity id).
LastCall == callLog'[Len(callLog')]

\* C14: an update or delete call naming an id that no entity of the layer has
\* leaves the four layers and visibility as they were (the call completes:
\* it is a step of the store like any other).
C14_AbsentIdNoOp ==
  [][(/\ Len(callLog') = Len(callLog) + 1
      /\ LastCall.type \in {"update", "delete"}
      /\ LastCall.entityId \notin IdsOf(Store[LastCall.layer]))
       => UNCHANGED <<events, decorations, handwriting, tasks, visibility>>]_vars

C14_AbsentUpdateDone ==
  /\ Len(run.pre) = 2 /\ run.undos = 0 /\ run.redos = 0
  /\ Len(callLog) = 2 /\ callLog[2] = Call("update", "events", "e2")
  /\ IdsOf(events) = {"e1"} /\ run.pre[2] = run.post

\* C15: updateEvent(id, partial) on an existing entity changes one entity only:
\* it takes the values of the fields partial names and keeps its other fields
\* and its place; every other entity of the layer, the other three layers and
\* visibility stay as they were.
C15_UpdateChangesOneEntity ==
  [][(/\ lastStep'.kind = "updateEvent" /\ calls' = calls + 1
      /\ lastStep'.batch[1] \in IdsOf(events))
       => LET id == lastStep'.batch[1]
              updates == lastStep'.batch[2]
          IN /\ Len(events') = Len(events)
             /\ \E i \in 1..Len(events) :
                  /\ events[i].id = id
                  /\ DOMAIN events'[i] = DOMAIN events[i] \cup DOMAIN updates
                  /\ \A f \in DOMAIN events'[i] :
                       events'[i][f] = IF f \in DOMAIN updates THEN updates[f]
                                                              ELSE events[i][f]
                  /\ \A j \in 1..Len(events) \ {i} : events'[j] = events[j]
             /\ UNCHANGED <<decorations, handwriting, tasks, visibility>>]_vars

\* C10 as stated: addEvent(e1); deleteEvent(e1.id); undo(); undo() from the
\* initial store ends with events = [e1].
C10_ScenarioA_EndsWithE1 == scen.step = 4 => events = <<scen.e>>

\* C10: addEvent(e1); deleteEvent(e1.id); undo(); undo() from the initial store
\* ends with the events layer empty, as in the initial store; events is [e1]
\* after the first undo.
C10_ScenarioA ==
  /\ scen.step = 3 => events = <<scen.e>>
  /\ scen.step = 4 => events = <<>>

C10_ScenarioADone == scen.step = 4 /\ Len(history) = 2 /\ historyIndex = -1

\* ------------------------------------------------------------------ useHistory properties

Timeline(h) == <<h.past, h.present, h.future>>

SaveStep == hookStep' \in {"timerFires", "saveToHistoryImmediate"}

\* The save of this step pushed an entry (it was not suppressed as a no-op).
Pushed == ~enableDiffing \/ present' # present

\* C17: past never holds more than maxHistoryLength entries, whatever sequence of
\* saveToHistory, saveToHistoryImmediate, undo, redo, jumpTo and clearHistory is
\* made; a save that pushes onto a full past removes past[0] and keeps the newer
\* entries in order, followed by the old present.
C17_PastCapped ==
  [][/\ Len(past') <= maxHistoryLength
     /\ (SaveStep /\ Pushed /\ Len(past) = maxHistoryLength) =>
          past' = Tail(past) \o <<present>>
    ]_vars

\* A save has just pushed onto a full past of the largest cap: the initial
\* snapshot is gone from it.
C17_OldestEvicted ==
  /\ hookStep = "saveToHistoryImmediate"
  /\ maxHistoryLength = MaxHistoryLength
  /\ Len(past) = maxHistoryLength
  /\ \A i \in 1..Len(past) : past[i].title = "b"
  /\ present = [title |-> "a", startTime |-> Date(2)]

\* C18: a burst of k >= 1 saveToHistory calls, each made before the previous
\* one's quiet window elapsed, followed by a quiet window with no other history
\* call, adds exactly one entry: past gains the present from before the burst
\* (losing its oldest entry when full), present becomes the last state given, the
\* future is empty and the earlier states of the burst are recorded nowhere.
\* Stated for bursts whose last state differs from the present, so that the
\* suppression of an identical snapshot (C19) is not what is being tested.
C18_BurstAddsOneEntry ==
  [][(hookStep' = "timerFires" /\ burst.clean /\ debounceTimer.newState # burst.before.present) =>
       LET before == burst.before
           gained == Append(before.past, before.present)
       IN /\ past' = IF Len(gained) > maxHistoryLength THEN Tail(gained) ELSE gained
          /\ present' = debounceTimer.newState
          /\ future' = <<>>
    ]_vars

\* C19: a save taking effect (saveToHistoryImmediate(s), or the timer of
\* saveToHistory(s) firing) with s equal to the current present leaves past,
\* present, future and lastSavedIndex unchanged when enableDiffing is on, and
\* pushes a new entry (the old present onto past, s as present, empty future)
\* when enableDiffing is off.
C19_NoOpSuppression ==
  [][(SaveStep /\ lastStateRef' = present) =>
       IF enableDiffing THEN UNCHANGED historyState
       ELSE LET gained == Append(past, present)
            IN /\ past' = IF Len(gained) > maxHistoryLength THEN Tail(gained) ELSE gained
               /\ present' = present
               /\ future' = <<>>
    ]_vars

\* With diffing on, the first call was an immediate save of the initial
\* snapshot itself, and nothing was pushed.
C19_IdenticalSaveSuppressed ==
  /\ enableDiffing
  /\ hookStep = "saveToHistoryImmediate"
  /\ lastStateRef = present
  /\ past = <<>>

\* C20: once markAsSaved() has been called, hasUnsavedChanges is false only
\* while present is the snapshot that was present at the most recent
\* markAsSaved(); any save that replaces present makes it true, also with past at
\* maxHistoryLength and after undo(), a new save and another undo().
C20_UnsavedChangesTracked ==
  (savedPresent # Null /\ ~getHistoryInfo(HistoryState).hasUnsavedChanges)
    => present = savedPresent

\* ------------------------------------------------------------------ calendar canvas properties

\* Moments of a day at which a date string may have been taken.
HoursOfDay == {0, 23}

\* Local days at the edges of the pages and weeks offered.
NearbyDays == {-1, 0, 6, 7, 27, 28, 34, 35, 58, 59}

DisplayedDays == {LocalDay(days[i], timeZone) : i \in 1..Len(days)}

\* C21: for a date that is the i-th day (0-based) of the displayed days list,
\* dateToPosition gives x = (i mod 7) * cellWidth and y = floor(i / 7) *
\* cellHeight in monthly view, y = 0 in weekly view; for a date that is not in
\* the list it gives {x: 0, y: 0}.
C21_DateToPosition ==
  \A ds \in {days}, cell \in {cellDimensions} :
    /\ \A i \in 0..(Len(ds) - 1), hour \in HoursOfDay :
         dateToPosition(toISOString(ds[i + 1] + hour), ds, viewMode, cell, timeZone)
           = [x |-> (i % 7) * cell.width,
              y |-> IF viewMode = "weekly" THEN 0 ELSE (i \div 7) * cell.height]
    /\ \A day \in NearbyDays \ {LocalDay(ds[i], timeZone) : i \in 1..Len(ds)},
          hour \in HoursOfDay :
         dateToPosition(toISOString(Midnight(day, timeZone) + hour), ds, viewMode, cell,
                        timeZone)
           = [x |-> 0, y |-> 0]

\* A resize has just looked up the position of a sticker whose date is on a
\* page that is not displayed, in weekly view.
C21_HiddenDateLookedUp ==
  /\ lastStep.kind = "handleMouseMove"
  /\ resizingSticker # Null
  /\ viewMode = "weekly"
  /\ Len(decorations) = 1
  /\ LocalDay(NewDate(decorations[1].position.dateX), timeZone) \notin DisplayedDays

\* C22: for two dates d1 <= d2 that are both on the displayed page, the cell of
\* d1 does not come after the cell of d2: its row is not greater, and when the
\* rows are equal its column is not greater.
C22_GridMonotone ==
  \A ds \in {days}, cell \in {cellDimensions} :
    \A at \in {[date \in {ds[i] + hour : i \in 1..Len(ds), hour \in HoursOfDay} |->
                  dateToPosition(toISOString(date), ds, viewMode, cell, timeZone)]} :
      \A d1, d2 \in DOMAIN at :
        d1 <= d2 =>
          /\ at[d1].y \div cell.height <= at[d2].y \div cell.height
          /\ at[d1].y \div cell.height = at[d2].y \div cell.height
               => at[d1].x \div cell.width <= at[d2].x \div cell.width

\* A sticker of the March page has just been looked up in monthly view, where
\* the page has five rows.
C22_MarchPageLookedUp ==
  /\ lastStep.kind = "handleMouseMove"
  /\ resizingSticker # Null
  /\ viewMode = "monthly"
  /\ Len(days) = 31
  /\ Len(decorations) = 1
  /\ LocalDay(NewDate(decorations[1].position.dateX), timeZone) \in DisplayedDays

\* The operations a step queued.
QueuedByStep == {syncQueue'[k] : k \in (Len(syncQueue) + 1)..Len(syncQueue')}

\* The step was a pointer-move whose drag branch wrote the sticker's position.
DragWrote ==
  /\ lastStep'.kind = "handleMouseMove"
  /\ draggedSticker # Null
  /\ \E op \in QueuedByStep : "position" \in DOMAIN op.data

\* The position the drag branch wrote.
DragWritten == (CHOOSE op \in QueuedByStep : "position" \in DOMAIN op.data).data.position

\* The dragged point of the step: pointer position minus grab offset.
DraggedPoint ==
  [x |-> lastStep'.batch[1] - draggedSticker.initialX,
   y |-> lastStep'.batch[2] - draggedSticker.initialY]

\* C23: on every pointer-move of a drag that changes the decoration, the new
\* dateX is the date of the grid cell containing the dragged point: the point
\* is within columns 0..6 and within a displayed cell (in weekly view the seven
\* columns are taken to extend over the whole height), and dateX is that cell's
\* day. A point in no displayed cell never re-anchors the decoration.
C23_DragReanchorsToCellUnderPoint ==
  [][DragWrote =>
       \A ds \in {days} :
         LET col == DraggedPoint.x \div cellDimensions.width
             row == IF viewMode = "weekly" THEN 0
                    ELSE DraggedPoint.y \div cellDimensions.height
         IN /\ col \in 0..6
            /\ row >= 0
            /\ row * 7 + col < Len(ds)
            /\ DragWritten.dateX = toISOString(ds[row * 7 + col + 1])
    ]_vars

\* C24: after any pointer-move of a drag that updates a decoration, in monthly
\* or weekly view and at any pointer position, the written position.offsetY is
\* at least 0 and below the cell height.
C24_OffsetWithinCell ==
  [][DragWrote =>
       /\ DragWritten.offsetY >= 0
       /\ DragWritten.offsetY < cellDimensions.height
    ]_vars

\* The step was a pointer-move of an active resize of a sticker of the layer.
ResizeMoved ==
  /\ lastStep'.kind = "handleMouseMove"
  /\ resizingSticker # Null
  /\ FindById(decorations, resizingSticker.id) # Null

\* C25: on every pointer-move of an active resize, handle right sets only
\* style.width, handle bottom only style.height, handle bottom-right both; a
\* dimension the handle sets becomes max(20, pointer coordinate minus the
\* decoration's origin); the other dimension, rotation, opacity and position
\* are unchanged.
C25_ResizeClamped ==
  [][ResizeMoved =>
       \A ds \in {days} :
         LET handle == resizingSticker.handle
             sticker == FindById(decorations, resizingSticker.id)
             after == FindById(decorations', resizingSticker.id)
             origin == dateToPosition(sticker.position.dateX, ds, viewMode,
                                      cellDimensions, timeZone)
             x == lastStep'.batch[1]
             y == lastStep'.batch[2]
         IN /\ after.style.width =
                 IF handle \in {"right", "bottom-right"}
                 THEN Max(20, x - (origin.x + sticker.position.offsetY))
                 ELSE sticker.style.width
            /\ after.style.height =
                 IF handle \in {"bottom", "bottom-right"}
                 THEN Max(20, y - origin.y)
                 ELSE sticker.style.height
            /\ after.style.width >= 20 \/ handle = "bottom"
            /\ after.style.height >= 20 \/ handle = "right"
            /\ after.style.rotation = sticker.style.rotation
            /\ after.style.opacity = sticker.style.opacity
            /\ after.position = sticker.position
    ]_vars

\* C26: in every state reached by startDraggingSticker, startResizingSticker,
\* pointer-move and pointer-up events, at most one of draggedSticker and
\* resizingSticker is non-null.
C26_OneGestureAtATime ==
  draggedSticker = Null \/ resizingSticker = Null

\* C27: in every reachable state, every decoration's position.dateX is a date
\* contained in the currently displayed days list.
C27_AnchorsDisplayed ==
  \A ds \in {days} :
    \A i \in 1..Len(decorations) :
      FindDayIndex(ds, NewDate(decorations[i].position.dateX), timeZone) # -1

\* ------------------------------------------------------------------ PDF export properties

\* The path commands of the document that carry a point.
PointsOf(path) == SelectSeq(path, LAMBDA cmd : cmd.op \in {"moveTo", "lineTo"})

\* (1 - i/n) a + (i/n) b, times n.
Lerp(a, b, i, n) == (n - i) * a + i * b

\* The cubic at t = i/n by repeated interpolation, times n^3.
DeCasteljau(p0, p1, p2, p3, i, n) ==
  Lerp(Lerp(Lerp(p0, p1, i, n), Lerp(p1, p2, i, n), i, n),
       Lerp(Lerp(p1, p2, i, n), Lerp(p2, p3, i, n), i, n), i, n)

\* C28: approximateBezier with N segments emits exactly N+1 points, one moveTo
\* followed by N lineTo, the i-th at t = i/N of the curve; the first point is
\* the start point (x0, y0) and the last is the end point (x3, y3).
C28_CurveFlattened ==
  lastCurve # Null =>
    LET c == lastCurve
        n == c.segments
        points == PointsOf(doc)
    IN /\ Len(points) = n + 1
       /\ points[1].op = "moveTo"
       /\ \A k \in 2..(n + 1) : points[k].op = "lineTo"
       /\ \A k \in 1..(n + 1) :
            /\ points[k].x * Cube(n) =
                 DeCasteljau(c.x0, c.x1, c.x2, c.x3, k - 1, n) * points[k].over
            /\ points[k].y * Cube(n) =
                 DeCasteljau(c.y0, c.y1, c.y2, c.y3, k - 1, n) * points[k].over
       /\ points[1].x = c.x0 * points[1].over /\ points[1].y = c.y0 * points[1].over
       /\ points[n + 1].x = c.x3 * points[n + 1].over
       /\ points[n + 1].y = c.y3 * points[n + 1].over

\* A curve with four distinct control points has been flattened with the
\* default of 20 segments.
C28_DefaultFlattened ==
  /\ lastCurve # Null
  /\ lastCurve.segments = DefaultSegments
  /\ lastCurve.x0 # lastCurve.x3
  /\ lastCurve.y1 # lastCurve.y2
  /\ Len(doc) = DefaultSegments + 2

\* ------------------------------------------------------------------ edits after undo properties

\* The store calls that are local edits.
EditKinds ==
  {"addEvent", "updateEvent", "deleteEvent", "addDecoration", "updateDecoration",
   "deleteDecoration", "addStroke", "deleteStroke", "addTask", "updateTask",
   "deleteTask", "toggle"}

\* C29: a new edit discards the redoable states. In useHistory, a save that
\* changes present leaves future empty. In the store, every add, update, delete
\* and toggleLayerVisibility keeps the first historyIndex+1 entries of history
\* and appends the snapshot taken before the edit, so that a redo() right after
\* the edit changes nothing.
C29_NewEditDiscardsRedo ==
  [][/\ (SaveStep /\ present' # present) => future' = <<>>
     /\ (lastStep'.kind \in EditKinds /\ calls' = calls + 1) =>
          /\ history' = Append(SubSeq(history, 1, historyIndex + 1),
                               [events |-> events, decorations |-> decorations,
                                handwriting |-> handwriting, tasks |-> tasks,
                                visibility |-> visibility])
          /\ historyIndex' = historyIndex + 1
          /\ Redo(Store') = Store'
    ]_vars

\* The store has taken an edit, an undo and a second edit: the snapshot that
\* redo would have restored is gone from history.
C29_EditAfterUndo ==
  /\ lastStep.kind \in EditKinds
  /\ calls = 2
  /\ Len(history) = 1
  /\ historyIndex = 0

\* ------------------------------------------------------------------ jumpTo

\* C30: jumpTo(index) with 0 <= index < past.length + 1 + future.length leaves
\* the timeline past + [present] + future unchanged as a sequence and makes
\* present its index-th element, past the elements before it and future the
\* elements after it; jumpTo(past.length - 1) gives what undo() gives and
\* jumpTo(past.length + 1) what redo() gives; any other index changes nothing.
C30_JumpToRepartitions ==
  LET h == HistoryState
      all == past \o <<present>> \o future
  IN /\ \A index \in JumpIndexes :
          LET after == JumpTo(h, index, maxHistoryLength)
          IN IF index >= 0 /\ index < Len(all)
             THEN /\ after.past \o <<after.present>> \o after.future = all
                  /\ Len(after.past) = index
                  /\ after.present = all[index + 1]
             ELSE after = h
     /\ JumpTo(h, Len(past) - 1, maxHistoryLength) = HookUndo(h)
     /\ JumpTo(h, Len(past) + 1, maxHistoryLength) = HookRedo(h)

\* A jumpTo has just moved present to the first entry of a timeline of three.
C30_JumpedToOldest ==
  /\ hookStep = "jumpTo"
  /\ past = <<>>
  /\ Len(future) = 2

\* ------------------------------------------------------------------ immediate save

\* The states held anywhere in a historyState.
Recorded(h) == Range(h.past) \cup {h.present} \cup Range(h.future)

\* C31: saveToHistoryImmediate(s) applies the save to past, present and future
\* in the step of the call and leaves no timer pending; the timer's callback
\* runs only for a save that is pending at that moment; and on no other step
\* does a pending state that is recorded nowhere (and is neither the argument
\* of the immediate save nor the present that clearHistory restores) enter
\* past, present or future.
C31_ImmediateSaveCancelsPending ==
  [][/\ hookStep' = "saveToHistoryImmediate" =>
          /\ debounceTimer' = Null
          /\ HistoryState' = PushState(HistoryState, lastStateRef', enableDiffing,
                                       maxHistoryLength)
     /\ hookStep' = "timerFires" => debounceTimer # Null
     /\ (hookStep' # "timerFires" /\ debounceTimer # Null) =>
          LET pending == debounceTimer.newState
              given == IF hookStep' = "saveToHistoryImmediate"
                       THEN {lastStateRef'} ELSE {renderedPresent}
          IN pending \notin Recorded(HistoryState) \cup given =>
               pending \notin Recorded(HistoryState')
    ]_vars

\* An immediate save has just cleared a pending timer, and a state other than the
\* one it saved is recorded nowhere.
C31_PendingCancelled ==
  /\ hookStep = "saveToHistoryImmediate"
  /\ burst.cancelled
  /\ debounceTimer = Null
  /\ [title |-> "b", startTime |-> Date(1)] \notin Recorded(HistoryState)
  /\ present = [title |-> "a", startTime |-> Date(2)]

\* ------------------------------------------------------------------ gesture listeners

\* C32: the document's pointer-move and pointer-up listeners are attached
\* exactly while a gesture is active: both are attached whenever draggedSticker
\* or resizingSticker is non-null, and none is attached when both are null, so
\* a pointer-up always leaves the document without listeners.
C32_ListenersWhileGesture ==
  listeners = IF draggedSticker # Null \/ resizingSticker # Null
              THEN GestureEvents ELSE {}

\* A sticker was added and moved or resized by a gesture, and the gesture has
\* ended with a pointer-up: the canvas is idle again and the document has no
\* listener.
C32_GestureEnded ==
  /\ calls >= 2
  /\ lastStep = Step("call")
  /\ draggedSticker = Null /\ resizingSticker = Null
  /\ listeners = {}

\* C33: a focus loss or a pointer-cancel during a drag or a resize ends the
\* gesture: draggedSticker and resizingSticker are both null afterwards (so
\* that later pointer-moves change no decoration), without a pointer-up.
C33_InterruptCancelsGesture ==
  [][lastStep'.kind \in InterruptEvents =>
       draggedSticker' = Null /\ resizingSticker' = Null]_vars

\* ------------------------------------------------------------------ drain race

C35_HistoryIndexBounds ==
  /\ [](/\ -1 <= historyIndex
        /\ historyIndex <= Len(history) - 1
        /\ Undo(Store).history = history
        /\ Redo(Store).history = history)
  /\ [][/\ (lastStep'.kind \in EditKinds /\ calls' = calls + 1) =>
             historyIndex' = Len(history') - 1
        /\ calls' = calls => history' = history
       ]_vars

\* Two calls were made and one of them is undone: historyIndex points below the
\* top of a history of two snapshots.
C35_OneOfTwoUndone ==
  /\ calls = 2
  /\ Len(history) = 2
  /\ historyIndex = 0

\* ------------------------------------------------------------------ undo, redo and the queue

\* C36: undo() and redo() leave syncQueue as it was: applied to any reachable
\* store they return the same queue, and a step that makes no mutation call
\* and neither hands a batch to the transport nor receives its answer changes
\* no entry of syncQueue.
C36_UndoRedoKeepQueue ==
  /\ [](Undo(Store).syncQueue = syncQueue /\ Redo(Store).syncQueue = syncQueue)
  /\ [][(calls' = calls /\ lastStep' = Step("call") /\ inFlight' = inFlight) =>
          syncQueue' = syncQueue]_vars

\* An addEvent was undone: the layer is empty again and its create operation is
\* still queued.
C36_UndoneCreateQueued ==
  /\ calls = 1
  /\ events = <<>>
  /\ historyIndex = -1
  /\ Len(history) = 1
  /\ Len(syncQueue) = 1
  /\ syncQueue[1].type = "create" /\ syncQueue[1].layer = "events"

\* ------------------------------------------------------------------ calls on absent ids

\* C37: an update or delete call whose id matches no entity of the layer leaves
\* the layers and visibility unchanged and still pushes one snapshot, equal to
\* the current state, above historyIndex (discarding the redoable entries),
\* increments historyIndex, and appends one operation of its type, layer and
\* id to syncQueue.
C37_AbsentIdStillRecorded ==
  [][(/\ Len(callLog') = Len(callLog) + 1
      /\ LastCall.type \in {"update", "delete"}
      /\ LastCall.entityId \notin IdsOf(Store[LastCall.layer]))
       => /\ UNCHANGED <<events, decorations, handwriting, tasks, visibility>>
          /\ history' = Append(SubSeq(history, 1, historyIndex + 1),
                               getCurrentState(Store'))
          /\ historyIndex' = historyIndex + 1
          /\ Redo(Store') = Store'
          /\ Len(syncQueue') = Len(syncQueue) + 1
          /\ SubSeq(syncQueue', 1, Len(syncQueue)) = syncQueue
          /\ LET operation == syncQueue'[Len(syncQueue')]
             IN /\ operation.type = LastCall.type
                /\ operation.layer = LastCall.layer
                /\ operation.entityId = LastCall.entityId
    ]_vars

\* addEvent, undo, then an update naming an id no event has: the snapshot that
\* redo would have restored is replaced by one of the empty state, and the
\* update is queued behind the create.
C37_AbsentUpdateAfterUndo ==
  /\ calls = 2
  /\ events = <<>>
  /\ Len(history) = 1 /\ historyIndex = 0
  /\ history[1].events = <<>>
  /\ Len(syncQueue) = 2
  /\ syncQueue[1].type = "create" /\ syncQueue[2].type = "update"
  /\ syncQueue[2].layer = "events"

\* ------------------------------------------------------------------ remote replay

\* The (type, layer) pairs the switch of applyRemoteChanges dispatches.
Supported(op) == op.type \in {"create", "delete"} \/ op.layer \in UpdatableLayers

\* C38: applyRemoteChanges(ops) goes through the local calls: from any store
\* state, a supported op pushes one snapshot (the state before it, above
\* historyIndex) and appends one operation of its type, layer and id to
\* syncQueue, so that undo() restores the layers from before the op; an update
\* op for the handwriting layer returns the store unchanged; and a batch adds
\* as many snapshots and queued operations as it has supported ops. A replay
\* step of the store does what the function gives.
C38_ReplayUsesLocalCalls ==
  /\ [](/\ \A op \in RemoteOps :
             LET after == ApplyOp(Store, op, now)
             IN IF Supported(op)
                THEN /\ after.history = Append(SubSeq(history, 1, historyIndex + 1),
                                               getCurrentState(Store))
                     /\ after.historyIndex = historyIndex + 1
                     /\ Len(after.syncQueue) = Len(syncQueue) + 1
                     /\ SubSeq(after.syncQueue, 1, Len(syncQueue)) = syncQueue
                     /\ LET queued == after.syncQueue[Len(after.syncQueue)]
                        IN /\ queued.type = op.type
                           /\ queued.layer = op.layer
                           /\ queued.entityId = op.entityId
                     /\ LayerStateOf(Undo(after)) = LayerStateOf(Store)
                ELSE after = Store
        /\ \A batch \in RemoteBatches :
             LET after == ApplyAll(Store, batch, now)
                 supported == Cardinality({i \in 1..Len(batch) : Supported(batch[i])})
             IN /\ Len(after.syncQueue) = Len(syncQueue) + supported
                /\ after.historyIndex = historyIndex + supported
                /\ IF supported = 0 THEN after = Store
                   ELSE Len(after.history) = historyIndex + 1 + supported)
  /\ [][lastStep'.kind = "replay" =>
          /\ Store' = ApplyAll(Store, lastStep'.batch, now)
          /\ Len(syncQueue') = Len(syncQueue) + 1
          /\ historyIndex' = historyIndex + 1]_vars

\* A remote create was replayed after a local call: it is queued for
\* transmission behind the local operation and has its own snapshot.
C38_RemoteCreateQueued ==
  /\ lastStep.kind = "replay"
  /\ calls = 2
  /\ Len(syncQueue) = 2
  /\ syncQueue[2].type = "create"
  /\ syncQueue[2].entityId = lastStep.batch[1].entityId
  /\ historyIndex = 1

\* ------------------------------------------------------------------ pending save and undo

\* The timer fires on this step after undo, redo, jumpTo or clearHistory ran
\* while its save was pending.
RacedFire == hookStep' = "timerFires" /\ ~burst.clean

\* past with the post-call present pushed, cut to maxHistoryLength.
PastWithPresent ==
  LET newPast == Append(past, present)
  IN IF Len(newPast) > maxHistoryLength THEN Tail(newPast) ELSE newPast

\* C39 as stated: if saveToHistory(s) is pending and undo(), redo() or jumpTo
\* runs before the quiet window elapses, then the timer, when it fires, pushes
\* the present left by that call onto past, makes s the present and empties
\* future.
C39_PendingSaveOverwritesRedo ==
  [][RacedFire =>
       /\ past' = PastWithPresent
       /\ present' = debounceTimer.newState
       /\ future' = <<>>]_vars

\* C39, amended: the same, unless enableDiffing is set and deepEqual finds s
\* equal to the present left by the call; the timer then changes nothing in
\* past, present and future, and redo() still reaches the undone state.
C39_PendingSaveOverwritesRedoUnlessSuppressed ==
  [][RacedFire =>
       IF hasStateChanged(enableDiffing, present, debounceTimer.newState)
       THEN /\ past' = PastWithPresent
            /\ present' = debounceTimer.newState
            /\ future' = <<>>
            /\ HookRedo(HistoryState') = HistoryState'
       ELSE UNCHANGED historyState]_vars

\* Two saves, a pending third, an undo, and the timer has fired: the present
\* left by the undo is the newest entry of past and nothing is left to redo.
C39_FiredAfterUndo ==
  /\ hookStep = "timerFires"
  /\ burst.raced
  /\ Len(past) = 2
  /\ present # past[2]
  /\ future = <<>>

\* ------------------------------------------------------------------ reconnect retries

\* C40: in every state of useOnlineStatus connectionAttempts <= maxRetries, and
\* with connectionAttempts at maxRetries no reconnect timer is pending.
C40_RetryBound ==
  /\ status.connectionAttempts <= status.maxRetries
  /\ status.connectionAttempts >= status.maxRetries => retryTimeoutRef = Null

====
